---- MODULE Spec2Model ----
(***************************************************************************)
(* The claim-based work queue of the GitHub scraper: the developers table  *)
(* and its child tables (src/src/database/repository.py) and the profile   *)
(* scraper's claim-and-process loop (src/src/scrapers/profile_scraper.py), *)
(* run by several scraper instances against one PostgreSQL database.       *)
(*                                                                         *)
(* Store model.  `developers' is the committed table.  A statement inside  *)
(* an open transaction writes to the transaction's pending rows (tx[w]);   *)
(* a row with a pending write is row-locked by that transaction until it   *)
(* commits or rolls back (READ COMMITTED).  A writer that meets a row      *)
(* locked by another transaction waits, which is modelled by the action    *)
(* being disabled until the lock is gone, after which it sees the          *)
(* committed row.                                                          *)
(*                                                                         *)
(* Clock model.  The code only ever compares processing_started_at with    *)
(* NOW() (repository.py:236), so a timestamp is stored as its distance     *)
(* from the present, in units of the stale timeout's minutes, saturated    *)
(* at AgeCap.  Tick lets one unit pass, for committed rows and for the     *)
(* rows pending in open transactions alike.                                *)
(***************************************************************************)
EXTENDS Integers, Sequences, FiniteSets, TLC

\* ---------------------------------------------------------------- bounds
NumWorkers == 2
NumUsers == 2
NumProfiles == 1
MaxRetryCount == 1
MaxInsertLen == 1
MaxOpInsertLen == 2
MaxOpProfiles == 2
MaxOpRetryCount == 1
MaxTokens == 3
MaxWindowDelays == 2
MaxClockDelays == 3
MaxMetricTotal == 3
NumLocations == 2
NumYears == 1
MaxResults == 3
MaxBioLen == 2
NumHosts == 2
NumPids == 2
MaxScrapers == 4
MaxItems == 2

\* ------------------------------------------------- configuration (scaled)
TARGET_PROFILES == 2
LowTarget == 1
MaxBatchSize == 2
timeout_minutes == 1
TARGET_USERNAMES == 2
BATCH_SIZE == 2
SEARCH_MAX_RESULTS == 2

\* ------------------------------------------------- configuration (as set)
MAX_RETRIES == 3
RETRY_DELAY == 5
TOKEN_ROTATION_DELAY == 60
EXPONENTIAL_BACKOFF == TRUE

Workers == 1..NumWorkers
Usernames == 1..NumUsers
Profiles == 1..NumProfiles
NULL == -1
AgeCap == timeout_minutes + 1

\* claim_batch_for_processing(limit): scrape_profiles passes its batch_size; a
\* limit below MaxBatchSize stands for a table holding more claimable rows than
\* the limit
BatchSizes == 1..MaxBatchSize

EnrichmentStatus == {"INITIAL", "PROCESSING", "PROFILED", "ENHANCED", "FAILED"}

VARIABLES
    developers,         \* committed rows of table developers, by username
    social_links,       \* committed rows of table social_links: username -> (platform -> url)
    repositories,       \* committed rows of table repositories: username -> (name -> repo_order)
    tx,                 \* per scraper instance: the open transaction's pending writes
    pc,                 \* per scraper instance: position in scrape_profiles / fetch_profile
    claimed_usernames,  \* per instance: the batch returned by the last claim
    pos,                \* per instance: index of the current username in the batch
    overlap,            \* history: usernames returned by claims that committed during the instance's open claim
    results,            \* history: per item of the current batch, how its handling ended
    claimed_retry,      \* history: per item of the current batch, its retry_count when claimed
    conn,               \* DatabaseRepository.conn of a caller that uses the repository directly
    call,               \* history: the last direct repository or fetch_profile call and what it returned
    tokens,             \* GitHubClientManager.tokens (empty: no manager constructed yet)
    current_token_index,\* GitHubClientManager.current_token_index
    github,             \* GitHubClientManager.github: the active client
    now,                \* the clock, in seconds
    quota_reset,        \* per credential: the instant its quota resets (exhausted before it)
    metrics,            \* MetricsCollector.metrics: scraper name -> ScraperMetrics counters
    search,             \* UsernameScraper.search_users: position and local variables
    scrapers,           \* the ProfileScraper objects constructed so far, in order
    claimed_from        \* history: the from_status of the last claim that took each row

vars == <<developers, social_links, repositories, tx, pc, claimed_usernames, pos,
          overlap, results, claimed_retry, conn, call,
          tokens, current_token_index, github, now, quota_reset, metrics, search,
          scrapers, claimed_from>>

opVars == <<conn, call>>

rotatorVars == <<tokens, current_token_index, github, now, quota_reset>>

utilVars == <<rotatorVars, metrics, search, scrapers, claimed_from>>

\* ------------------------------------------------------------ small helpers
Min(a, b) == IF a <= b THEN a ELSE b

EmptyFn == [x \in {} |-> NULL]

\* f overridden by g where g is defined
Merge(f, g) == [x \in (DOMAIN f) \cup (DOMAIN g) |-> IF x \in DOMAIN g THEN g[x] ELSE f[x]]

SeqToSet(s) == {s[k] : k \in 1..Len(s)}

NoTx == [rows |-> EmptyFn, claimed |-> <<>>]

NoCall == [op |-> "none"]

\* CREATE TABLE developers: column defaults of a freshly inserted row
NewRow(id) ==
    [id |-> id, enrichment_status |-> "INITIAL", retry_count |-> 0,
     claimed_by |-> NULL, processing_started_at |-> NULL, name |-> NULL]

\* ------------------------------------------------------- the fetched profile
\* profile['social_links'] as _extract_social_links builds it: a url or None
\* per platform, and the list other_links
ProfileSocialLinks(p) ==
    IF p = 1
    THEN [links |-> [twitter |-> "https://twitter.com/a", linkedin |-> "NULL"],
          other_links |-> <<"https://a.example">>]
    ELSE [links |-> [twitter |-> "NULL", linkedin |-> "https://linkedin.com/in/b"],
          other_links |-> <<>>]

\* profile['top_repos']: the names of the most recently updated repositories
ProfileTopRepos(p) == IF p = 1 THEN <<"r1", "r2">> ELSE <<"r2">>

\* ------------------------------------------------------------- transactions
LockedBy(w) == DOMAIN tx[w].rows

LockedByOther(w, u) == \E v \in Workers \ {w} : u \in LockedBy(v)

\* get_cursor, normal exit: conn.commit()
get_cursor_commit(table, pending) == Merge(table, pending)

\* a get_cursor whose exception path commits what was written so far
get_cursor_rollback_partial(table, pending) == Merge(table, pending)

\* get_cursor, exception: conn.rollback() leaves the committed table as it was
get_cursor_rollback(table, pending) == table

CountByStatus(status) ==
    Cardinality({u \in DOMAIN developers : developers[u].enrichment_status = status})

\* --------------------------------------------------------- insert_usernames_batch
\* an INSERT ... ON CONFLICT (username) DO UPDATE that resets the row
insert_usernames_batch_overwrite(table, usernames) ==
    Merge(table, [u \in SeqToSet(usernames) |->
                     NewRow(IF u \in DOMAIN table THEN table[u].id
                            ELSE Cardinality(DOMAIN table) + 1)])

RECURSIVE insert_usernames_batch(_, _)
insert_usernames_batch(table, usernames) ==
    IF usernames = <<>> THEN table
    ELSE LET u == Head(usernames)
             t == IF u \in DOMAIN table THEN table
                  ELSE Merge(table, [x \in {u} |-> NewRow(Cardinality(DOMAIN table) + 1)])
         IN insert_usernames_batch(t, Tail(usernames))

\* ------------------------------------------------ claim_batch_for_processing
\* a threshold comparison with <= in place of <
IsStaleInclusive(row) ==
    /\ row.enrichment_status = "PROCESSING"
    /\ row.processing_started_at # NULL
    /\ row.processing_started_at >= timeout_minutes

\* processing_started_at < NOW() - INTERVAL 'timeout minutes'
IsStale(row) ==
    /\ row.enrichment_status = "PROCESSING"
    /\ row.processing_started_at # NULL
    /\ row.processing_started_at > timeout_minutes

\* a claim without its step 1
StaleRowsNone(table) == {}

\* UPDATE developers ... WHERE enrichment_status = 'PROCESSING' AND processing_started_at < ...
StaleRows(table) == {u \in DOMAIN table : IsStale(table[u])}

ReleaseRow(row, from_status) ==
    [row EXCEPT !.enrichment_status = from_status,
                !.claimed_by = NULL,
                !.processing_started_at = NULL]

ClaimRow(row, instance_id) ==
    [row EXCEPT !.enrichment_status = "PROCESSING",
                !.claimed_by = instance_id,
                !.processing_started_at = 0]

RECURSIVE OrderById(_, _)
OrderById(S, rows) ==
    IF S = {} THEN <<>>
    ELSE LET m == CHOOSE u \in S : \A v \in S : rows[u].id <= rows[v].id
         IN <<m>> \o OrderById(S \ {m}, rows)

\* the subselect without FOR UPDATE SKIP LOCKED
SelectWithoutSkipLocked(w, rows, from_status, limit) ==
    LET cand == {u \in DOMAIN rows : rows[u].enrichment_status = from_status}
        ordered == OrderById(cand, rows)
    IN SubSeq(ordered, 1, Min(limit, Len(ordered)))

\* SELECT id FROM developers WHERE enrichment_status = from_status
\*   ORDER BY id LIMIT limit FOR UPDATE SKIP LOCKED
SelectForUpdateSkipLocked(w, rows, from_status, limit) ==
    LET cand == {u \in DOMAIN rows : /\ rows[u].enrichment_status = from_status
                                     /\ ~LockedByOther(w, u)}
        ordered == OrderById(cand, rows)
    IN SubSeq(ordered, 1, Min(limit, Len(ordered)))

\* ------------------------------------------------------------- fetch_profile
\* what one call of the GitHub API (get_user, get_repos) does
ApiOutcomes == {"ok", "rate_limit", "transient", "permanent"}

RECURSIVE Pow2(_)
Pow2(n) == IF n = 0 THEN 1 ELSE 2 * Pow2(n - 1)

\* a loop that sleeps RETRY_DELAY after every failed attempt, the last included
RECURSIVE fetch_profile_from_flat_delay(_, _, _)
fetch_profile_from_flat_delay(attempt, api, acc) ==
    IF attempt >= MAX_RETRIES
    THEN [acc EXCEPT !.result = "none"]
    ELSE LET called == [acc EXCEPT !.calls = @ + 1] IN
         CASE api[attempt + 1] = "ok" -> [called EXCEPT !.result = "profile"]
           [] api[attempt + 1] = "rate_limit" ->
                fetch_profile_from_flat_delay(attempt + 1, api,
                    [called EXCEPT !.rate_limit = @ + 1, !.retries = @ + 1,
                                   !.sleeps = Append(@, TOKEN_ROTATION_DELAY)])
           [] OTHER ->
                IF attempt < MAX_RETRIES - 1
                THEN fetch_profile_from_flat_delay(attempt + 1, api,
                        [called EXCEPT !.retries = @ + 1,
                                       !.sleeps = Append(@, RETRY_DELAY)])
                ELSE [called EXCEPT !.retries = @ + 1, !.result = "failed",
                                    !.sleeps = Append(@, RETRY_DELAY),
                                    !.permanent = (api[attempt + 1] = "permanent")]

\* fetch_profile's for loop from `attempt` on, given what the API does at each
\* successive call; `acc` collects what the loop has done so far
RECURSIVE fetch_profile_from(_, _, _)
fetch_profile_from(attempt, api, acc) ==
    IF attempt >= MAX_RETRIES
    THEN [acc EXCEPT !.result = "none"]                       \* line 185
    ELSE LET called == [acc EXCEPT !.calls = @ + 1] IN
         CASE api[attempt + 1] = "ok" ->
                [called EXCEPT !.result = "profile"]          \* line 165
           [] api[attempt + 1] = "rate_limit" ->              \* lines 167-171
                fetch_profile_from(attempt + 1, api,
                    [called EXCEPT !.rate_limit = @ + 1,
                                   !.retries = @ + 1,
                                   !.sleeps = Append(@, TOKEN_ROTATION_DELAY)])
           [] OTHER ->                                        \* lines 173-183
                IF attempt < MAX_RETRIES - 1
                THEN fetch_profile_from(attempt + 1, api,
                        [called EXCEPT !.retries = @ + 1,
                                       !.sleeps = Append(@, RETRY_DELAY *
                                            (IF EXPONENTIAL_BACKOFF THEN Pow2(attempt) ELSE 1))])
                ELSE [called EXCEPT !.retries = @ + 1,
                                    !.result = "failed",
                                    !.permanent = (api[attempt + 1] = "permanent")]

fetch_profile(api) ==
    fetch_profile_from(0, api,
        [result |-> "none", calls |-> 0, retries |-> 0, rate_limit |-> 0,
         sleeps |-> <<>>, permanent |-> FALSE])

ApiInputs == [1..MAX_RETRIES -> ApiOutcomes]

\* the ways fetch_profile can end
FetchResults == {fetch_profile(api).result : api \in ApiInputs}

\* ------------------------------------------------------------ update_profile
\* an UPDATE that does not reset retry_count
UpdateProfileRowKeepRetry(row, p) ==
    [row EXCEPT !.name = p,
                !.enrichment_status = "PROFILED",
                !.claimed_by = NULL,
                !.processing_started_at = NULL]

UpdateProfileRow(row, p) ==
    [row EXCEPT !.name = p,
                !.enrichment_status = "PROFILED",
                !.retry_count = 0,
                !.claimed_by = NULL,
                !.processing_started_at = NULL]

\* _insert_social_links: one row per platform with a url, other_<n> for the rest,
\* ON CONFLICT (developer_id, platform) DO UPDATE SET url
OtherPlatform(idx) == IF idx = 0 THEN "other_1" ELSE IF idx = 1 THEN "other_2" ELSE "other_3"

InsertSocialLinks(existing, sl) ==
    LET named == {k \in DOMAIN sl.links : sl.links[k] # "NULL"}
        others == [k \in {OtherPlatform(n - 1) : n \in 1..Len(sl.other_links)} |->
                      sl.other_links[CHOOSE n \in 1..Len(sl.other_links) : OtherPlatform(n - 1) = k]]
        social_data == Merge([k \in named |-> sl.links[k]], others)
    IN Merge(existing, social_data)

\* _insert_repositories: ON CONFLICT (developer_id, name) DO UPDATE SET ... repo_order
InsertRepositories(existing, top_repos) ==
    Merge(existing, [n \in SeqToSet(top_repos) |->
                        (CHOOSE k \in 1..Len(top_repos) : top_repos[k] = n) - 1])

\* --------------------------------------------- mark_as_failed / increment_retry_count
\* a mark_as_failed that does not count the failure
MarkAsFailedRowNoCount(row) ==
    [row EXCEPT !.enrichment_status = "FAILED",
                !.claimed_by = NULL,
                !.processing_started_at = NULL]

MarkAsFailedRow(row) ==
    [row EXCEPT !.enrichment_status = "FAILED",
                !.retry_count = @ + 1,
                !.claimed_by = NULL,
                !.processing_started_at = NULL]

\* an increment_retry_count that does not set the status back
IncrementRetryCountRowKeepStatus(row, back_to_status) ==
    [row EXCEPT !.retry_count = @ + 1,
                !.claimed_by = NULL,
                !.processing_started_at = NULL]

\* an increment_retry_count that keeps the claim's owner
IncrementRetryCountRowKeepClaim(row, back_to_status) ==
    [row EXCEPT !.retry_count = @ + 1,
                !.enrichment_status = back_to_status,
                !.processing_started_at = NULL]

IncrementRetryCountRow(row, back_to_status) ==
    [row EXCEPT !.retry_count = @ + 1,
                !.enrichment_status = back_to_status,
                !.claimed_by = NULL,
                !.processing_started_at = NULL]

\* ================================================================= state machine
Init ==
    /\ developers = EmptyFn
    /\ social_links = EmptyFn
    /\ repositories = EmptyFn
    /\ tx = [w \in Workers |-> NoTx]
    /\ pc = [w \in Workers |-> "idle"]
    /\ claimed_usernames = [w \in Workers |-> <<>>]
    /\ pos = [w \in Workers |-> 0]
    /\ overlap = [w \in Workers |-> {}]
    /\ results = [w \in Workers |-> <<>>]
    /\ claimed_retry = [w \in Workers |-> <<>>]
    /\ conn = "open"
    /\ call = NoCall
    /\ tokens = <<>>
    /\ current_token_index = 0
    /\ github = NULL
    /\ now = 0
    /\ quota_reset = <<>>
    /\ scrapers = <<>>
    /\ claimed_from = [u \in Usernames |-> "none"]
    /\ search = [pc |-> "idle", location |-> 0, year |-> 0, users |-> <<>>, count |-> 0,
                 batch_usernames |-> <<>>, taken |-> <<>>]
    /\ metrics = [s \in {"username_scraper", "profile_scraper", "social_scraper"} |->
                    [total_processed |-> 0, total_success |-> 0, total_failed |-> 0,
                     total_retries |-> 0, rate_limit_hits |-> 0]]

\* the username the for loop of scrape_profiles is at
Cur(w) == claimed_usernames[w][pos[w]]

InClaimTx(w) == pc[w] = "claim_commit"

InBatch(w) == pc[w] \in {"fetch", "update_profile", "handler", "handler_after_commit"}

localVars == <<claimed_usernames, pos, results, claimed_retry>>

workerVars == <<tx, pc, overlap, localVars>>

childTables == <<social_links, repositories>>

\* The discovery stage inserts a batch of usernames (UsernameScraper.search_users).
\* Usernames are labels: the discovery stage is taken to meet them in the order
\* 1, 2, ..., so that a row's id equals its username.
InsertUsernamesBatch(usernames) ==
    /\ developers' = insert_usernames_batch(developers, usernames)
    /\ \A u \in DOMAIN developers' : developers'[u].id = u
    /\ social_links' = Merge([u \in DOMAIN developers' |-> EmptyFn], social_links)
    /\ repositories' = Merge([u \in DOMAIN developers' |-> EmptyFn], repositories)
    /\ UNCHANGED workerVars
    /\ UNCHANGED <<opVars, utilVars>>

\* One unit of time passes: every stored timestamp is one unit further in the past.
Older(rows) ==
    [u \in DOMAIN rows |->
        IF rows[u].processing_started_at = NULL THEN rows[u]
        ELSE [rows[u] EXCEPT !.processing_started_at = Min(@ + 1, AgeCap)]]

Tick ==
    /\ developers' = Older(developers)
    /\ tx' = [w \in Workers |-> [tx[w] EXCEPT !.rows = Older(@)]]
    /\ UNCHANGED <<childTables, pc, overlap, localVars>>
    /\ UNCHANGED <<opVars, utilVars>>

\* scrape_profiles is left (return or exception) and the process ends; a later
\* run of the instance starts from scratch
Exit(w) ==
    /\ pc' = [pc EXCEPT ![w] = "idle"]
    /\ claimed_usernames' = [claimed_usernames EXCEPT ![w] = <<>>]
    /\ pos' = [pos EXCEPT ![w] = 0]
    /\ results' = [results EXCEPT ![w] = <<>>]
    /\ claimed_retry' = [claimed_retry EXCEPT ![w] = <<>>]
    /\ overlap' = [overlap EXCEPT ![w] = {}]

\* the for loop of scrape_profiles moves to the next claimed username (lines 246,
\* 226), or is over and the while loop starts its next round
NextItem(w, kind) ==
    /\ results' = [results EXCEPT ![w] = Append(@, kind)]
    /\ claimed_usernames' = claimed_usernames
    /\ claimed_retry' = claimed_retry
    /\ IF pos[w] < Len(claimed_usernames[w])
       THEN /\ pos' = [pos EXCEPT ![w] = @ + 1]
            /\ pc' = [pc EXCEPT ![w] = "fetch"]
       ELSE /\ pos' = [pos EXCEPT ![w] = 0]
            /\ pc' = [pc EXCEPT ![w] = "loop"]

\* scrape_profiles lines 194-209: the target check finds the target reached
TargetReached(w) ==
    /\ pc[w] \in {"idle", "loop"}
    /\ CountByStatus("PROFILED") >= TARGET_PROFILES
    /\ Exit(w)
    /\ UNCHANGED <<developers, childTables, tx>>
    /\ UNCHANGED <<opVars, utilVars>>

\* scrape_profiles lines 194-217: the target check passes and
\* claim_batch_for_processing runs both its statements: step 1 releases the stale
\* claims, step 2 claims up to limit rows; the transaction is still open
ClaimBatch(w) ==
    /\ pc[w] \in {"idle", "loop"}
    /\ CountByStatus("PROFILED") < TARGET_PROFILES
    /\ LET stale == StaleRows(developers)
       IN /\ \A u \in stale : ~LockedByOther(w, u)
          /\ LET released == [u \in stale |-> ReleaseRow(developers[u], "INITIAL")]
                 rows == Merge(developers, released)
             IN \E limit \in BatchSizes :
                   LET ids == SelectForUpdateSkipLocked(w, rows, "INITIAL", limit)
                   IN tx' = [tx EXCEPT ![w].rows =
                                  Merge(released, [u \in SeqToSet(ids) |-> ClaimRow(rows[u], w)]),
                                       ![w].claimed = ids]
    /\ pc' = [pc EXCEPT ![w] = "claim_commit"]
    /\ claimed_usernames' = [claimed_usernames EXCEPT ![w] = <<>>]
    /\ results' = [results EXCEPT ![w] = <<>>]
    /\ claimed_retry' = [claimed_retry EXCEPT ![w] = <<>>]
    /\ UNCHANGED <<developers, childTables, overlap, pos>>
    /\ UNCHANGED <<opVars, utilVars>>

\* a driver loop that goes round again after an empty claim
ClaimCommitKeepLooping(w) ==
    /\ pc[w] = "claim_commit"
    /\ developers' = get_cursor_commit(developers, tx[w].rows)
    /\ tx' = [tx EXCEPT ![w] = NoTx]
    /\ pc' = [pc EXCEPT ![w] = IF tx[w].claimed = <<>> THEN "loop" ELSE "fetch"]
    /\ pos' = [pos EXCEPT ![w] = IF tx[w].claimed = <<>> THEN 0 ELSE 1]
    /\ claimed_usernames' = [claimed_usernames EXCEPT ![w] = tx[w].claimed]
    /\ claimed_retry' = [claimed_retry EXCEPT ![w] =
          [k \in 1..Len(tx[w].claimed) |-> tx[w].rows[tx[w].claimed[k]].retry_count]]
    /\ results' = [results EXCEPT ![w] = <<>>]
    /\ overlap' = [v \in Workers |->
          IF v = w THEN {}
          ELSE IF InClaimTx(v) THEN overlap[v] \cup SeqToSet(tx[w].claimed)
          ELSE overlap[v]]
    /\ UNCHANGED <<childTables, opVars, utilVars>>

\* claim_batch_for_processing returns: get_cursor commits; scrape_profiles lines 219-226
ClaimCommit(w) ==
    /\ pc[w] = "claim_commit"
    /\ developers' = get_cursor_commit(developers, tx[w].rows)
    /\ tx' = [tx EXCEPT ![w] = NoTx]
    /\ IF tx[w].claimed = <<>>
       THEN Exit(w)
       ELSE /\ pc' = [pc EXCEPT ![w] = "fetch"]
            /\ pos' = [pos EXCEPT ![w] = 1]
            /\ claimed_usernames' = [claimed_usernames EXCEPT ![w] = tx[w].claimed]
            /\ claimed_retry' = [claimed_retry EXCEPT ![w] =
                  [k \in 1..Len(tx[w].claimed) |-> tx[w].rows[tx[w].claimed[k]].retry_count]]
            /\ results' = [results EXCEPT ![w] = <<>>]
            /\ overlap' = [v \in Workers |->
                  IF v = w THEN {}
                  ELSE IF InClaimTx(v) THEN overlap[v] \cup SeqToSet(tx[w].claimed)
                  ELSE overlap[v]]
    /\ UNCHANGED childTables
    /\ UNCHANGED <<opVars, utilVars>>

\* a store error inside claim_batch_for_processing: get_cursor rolls back and the
\* exception leaves scrape_profiles and run
ClaimError(w) ==
    /\ InClaimTx(w)
    /\ developers' = get_cursor_rollback(developers, tx[w].rows)
    /\ tx' = [tx EXCEPT ![w] = NoTx]
    /\ Exit(w)
    /\ UNCHANGED childTables
    /\ UNCHANGED <<opVars, utilVars>>

\* fetch_profile returns a profile dict (line 165); scrape_profiles line 232 calls
\* update_profile, whose UPDATE ... WHERE username = profile['username'] RETURNING id
\* runs.  login is the username GitHub reports (user.login): the claimed one, or
\* one that no row has.  update_ok: the UPDATE statement runs, or raises.
FetchProfileOk(w) ==
    /\ pc[w] = "fetch"
    /\ "profile" \in FetchResults
    /\ \E p \in Profiles : \E login \in {Cur(w), NULL} : \E update_ok \in BOOLEAN :
          IF ~update_ok
          THEN /\ pc' = [pc EXCEPT ![w] = "handler"]
               /\ UNCHANGED <<tx, localVars>>
          ELSE IF login \in DOMAIN developers
          THEN /\ ~LockedByOther(w, login)
               /\ tx' = [tx EXCEPT ![w].rows =
                             [u \in {login} |-> UpdateProfileRow(developers[u], p)]]
               /\ pc' = [pc EXCEPT ![w] = "update_profile"]
               /\ UNCHANGED localVars
          ELSE \* no row: update_profile returns None, line 233 skips, line 246 sleeps
               /\ tx' = tx
               /\ NextItem(w, "other")
    /\ UNCHANGED <<developers, childTables, overlap>>
    /\ UNCHANGED <<opVars, utilVars>>

\* fetch_profile runs out of attempts on a RateLimitExceededException and returns
\* None at line 185; scrape_profiles lines 243-246
FetchProfileNone(w) ==
    /\ pc[w] = "fetch"
    /\ "none" \in FetchResults
    /\ NextItem(w, "none")
    /\ UNCHANGED <<developers, childTables, tx, overlap>>
    /\ UNCHANGED <<opVars, utilVars>>

\* fetch_profile's last attempt raises: mark_as_failed (line 182) and return None,
\* scrape_profiles lines 243-246; or mark_as_failed raises, which leaves
\* fetch_profile and reaches the handler of scrape_profiles (line 248)
FetchProfileFailed(w) ==
    /\ pc[w] = "fetch"
    /\ "failed" \in FetchResults
    /\ \E mark_ok \in BOOLEAN :
          IF mark_ok
          THEN /\ ~LockedByOther(w, Cur(w))
               /\ developers' = [developers EXCEPT ![Cur(w)] = MarkAsFailedRow(@)]
               /\ NextItem(w, "failed")
          ELSE /\ pc' = [pc EXCEPT ![w] = "handler"]
               /\ UNCHANGED <<developers, localVars>>
    /\ UNCHANGED <<childTables, tx, overlap>>
    /\ UNCHANGED <<opVars, utilVars>>

\* the profile the open update_profile transaction of w is writing, and whose
PendingUsername(w) == CHOOSE u \in DOMAIN tx[w].rows : TRUE

PendingProfile(w) == tx[w].rows[PendingUsername(w)].name

\* update_profile lines 324-329: _insert_social_links, _insert_repositories, return
\* developer_id, get_cursor commits; then scrape_profiles lines 233-246.  count_ok:
\* the progress query of line 237 returns, or raises.
UpdateProfileCommit(w) ==
    /\ pc[w] = "update_profile"
    /\ LET u == PendingUsername(w)
           social == InsertSocialLinks(social_links[u], ProfileSocialLinks(PendingProfile(w)))
           repos == InsertRepositories(repositories[u], ProfileTopRepos(PendingProfile(w)))
       IN /\ developers' = get_cursor_commit(developers, tx[w].rows)
          /\ social_links' = get_cursor_commit(social_links, [x \in {u} |-> social])
          /\ repositories' = get_cursor_commit(repositories, [x \in {u} |-> repos])
    /\ tx' = [tx EXCEPT ![w] = NoTx]
    /\ \E count_ok \in BOOLEAN :
          IF count_ok
          THEN NextItem(w, "ok")
          ELSE /\ pc' = [pc EXCEPT ![w] = "handler_after_commit"]
               /\ UNCHANGED localVars
    /\ UNCHANGED overlap
    /\ UNCHANGED <<opVars, utilVars>>

\* where a store fault can hit update_profile after its UPDATE statement
FaultPoints == {"social_links", "repositories", "commit"}

\* an update_profile failure that no handler catches: the exception ends the run
UpdateProfileErrorUncaught(w) ==
    /\ pc[w] = "update_profile"
    /\ tx' = [tx EXCEPT ![w] = NoTx]
    /\ Exit(w)
    /\ UNCHANGED <<developers, childTables, opVars, utilVars>>

\* a store fault inside update_profile after the UPDATE: in _insert_social_links,
\* in _insert_repositories or at the commit.  get_cursor rolls back, update_profile
\* re-raises, line 248 catches.
UpdateProfileError(w) ==
    /\ pc[w] = "update_profile"
    /\ \E fault \in FaultPoints :
          LET u == PendingUsername(w)
              social == IF fault = "social_links" THEN EmptyFn
                        ELSE [x \in {u} |-> InsertSocialLinks(social_links[u],
                                                ProfileSocialLinks(PendingProfile(w)))]
              repos == IF fault = "commit"
                       THEN [x \in {u} |-> InsertRepositories(repositories[u],
                                                ProfileTopRepos(PendingProfile(w)))]
                       ELSE EmptyFn
          IN /\ developers' = get_cursor_rollback(developers, tx[w].rows)
             /\ social_links' = get_cursor_rollback(social_links, social)
             /\ repositories' = get_cursor_rollback(repositories, repos)
    /\ tx' = [tx EXCEPT ![w] = NoTx]
    /\ pc' = [pc EXCEPT ![w] = "handler"]
    /\ UNCHANGED <<overlap, localVars>>
    /\ UNCHANGED <<opVars, utilVars>>

\* scrape_profiles lines 248-253: increment_retry_count(username, str(e), INITIAL),
\* whether the exception came from fetch_profile or update_profile ("handler") or
\* from a statement after the commit ("handler_after_commit")
IncrementRetryCount(w) ==
    /\ pc[w] \in {"handler", "handler_after_commit"}
    /\ ~LockedByOther(w, Cur(w))
    /\ developers[Cur(w)].retry_count < MaxRetryCount
    /\ developers' = [developers EXCEPT ![Cur(w)] = IncrementRetryCountRow(@, "INITIAL")]
    /\ NextItem(w, "other")
    /\ UNCHANGED <<childTables, tx, overlap>>
    /\ UNCHANGED <<opVars, utilVars>>

\* increment_retry_count raises inside the handler: the exception leaves scrape_profiles
IncrementRetryCountError(w) ==
    /\ pc[w] \in {"handler", "handler_after_commit"}
    /\ Exit(w)
    /\ UNCHANGED <<developers, childTables, tx>>
    /\ UNCHANGED <<opVars, utilVars>>

\* the instance dies (killed, host lost) anywhere in scrape_profiles; the server
\* rolls its open transaction back
Crash(w) ==
    /\ pc[w] # "idle"
    /\ tx' = [tx EXCEPT ![w] = NoTx]
    /\ Exit(w)
    /\ UNCHANGED <<developers, childTables>>
    /\ UNCHANGED <<opVars, utilVars>>

InsertInputs == UNION {[1..n -> Usernames] : n \in 1..MaxInsertLen}

WorkerStep(w) ==
    \/ TargetReached(w)
    \/ ClaimBatch(w)
    \/ ClaimCommit(w)
    \/ ClaimError(w)
    \/ FetchProfileOk(w)
    \/ FetchProfileNone(w)
    \/ FetchProfileFailed(w)
    \/ UpdateProfileCommit(w)
    \/ UpdateProfileError(w)
    \/ IncrementRetryCount(w)
    \/ IncrementRetryCountError(w)
    \/ Crash(w)

Next ==
    \/ \E usernames \in InsertInputs : InsertUsernamesBatch(usernames)
    \/ Tick
    \/ \E w \in Workers : WorkerStep(w)

Spec == Init /\ [][Next]_vars

\* one scraper instance on its own (it may be run again after it ends)
NextSingle ==
    \/ \E usernames \in InsertInputs : InsertUsernamesBatch(usernames)
    \/ Tick
    \/ WorkerStep(1)

SpecSingle == Init /\ [][NextSingle]_vars

\* one scraper instance whose process is not killed
WorkerStepAlive(w) ==
    \/ TargetReached(w)
    \/ ClaimBatch(w)
    \/ ClaimCommit(w)
    \/ ClaimError(w)
    \/ FetchProfileOk(w)
    \/ FetchProfileNone(w)
    \/ FetchProfileFailed(w)
    \/ UpdateProfileCommit(w)
    \/ UpdateProfileError(w)
    \/ IncrementRetryCount(w)
    \/ IncrementRetryCountError(w)

NextSingleAlive ==
    \/ \E usernames \in InsertInputs : InsertUsernamesBatch(usernames)
    \/ Tick
    \/ WorkerStepAlive(1)

SpecSingleAlive == Init /\ [][NextSingleAlive]_vars

\* one instance, run again and again, while time keeps passing
LiveSpecSingle == SpecSingle /\ WF_vars(Tick)

\* =================================================== the repository called directly
\* The operations of DatabaseRepository and fetch_profile called one at a time, in
\* any order and with any arguments, each running to its end in one step.

\* get_cursor on the connection as it is: conn.cursor() raises on a lost
\* connection, and nothing on the way calls connect()
get_cursor_enter(c) == [raised |-> c # "open", connects |-> 0]

Raised(op, arg) ==
    [op |-> op, arg |-> arg, raised |-> TRUE, ret |-> NULL,
     connects |-> get_cursor_enter(conn).connects]

Returned(op, arg, ret) ==
    [op |-> op, arg |-> arg, raised |-> FALSE, ret |-> ret,
     connects |-> get_cursor_enter(conn).connects]

tables == <<developers, social_links, repositories>>

\* cursor.rowcount after execute_batch: the row count of the last statement run,
\* the INSERT of the last username (-1 when no statement ran)
execute_batch_rowcount(table, usernames) ==
    IF usernames = <<>> THEN -1
    ELSE LET before == insert_usernames_batch(table, SubSeq(usernames, 1, Len(usernames) - 1))
         IN IF usernames[Len(usernames)] \in DOMAIN before THEN 0 ELSE 1

OpInsertInputs == UNION {[1..n -> Usernames] : n \in 1..MaxOpInsertLen}

OpProfiles == 1..MaxOpProfiles

\* the server is reachable but the connection object has gone bad
LoseConnection ==
    /\ conn = "open"
    /\ conn' = "lost"
    /\ UNCHANGED <<tables, workerVars, call, utilVars>>

\* DatabaseRepository.connect, succeeding
Connect ==
    /\ conn = "lost"
    /\ conn' = "open"
    /\ UNCHANGED <<tables, workerVars, call, utilVars>>

OpInsertUsernamesBatch(usernames) ==
    /\ IF get_cursor_enter(conn).raised
       THEN /\ call' = Raised("insert_usernames_batch", usernames)
            /\ UNCHANGED tables
       ELSE /\ developers' = insert_usernames_batch(developers, usernames)
            /\ social_links' = Merge([u \in DOMAIN developers' |-> EmptyFn], social_links)
            /\ repositories' = Merge([u \in DOMAIN developers' |-> EmptyFn], repositories)
            /\ call' = Returned("insert_usernames_batch", usernames,
                                execute_batch_rowcount(developers, usernames))
    /\ UNCHANGED <<conn, workerVars, utilVars>>

OpClaimBatch(w, limit) ==
    /\ IF get_cursor_enter(conn).raised
       THEN /\ call' = Raised("claim_batch_for_processing", <<w, limit>>)
            /\ UNCHANGED tables
       ELSE LET stale == StaleRows(developers)
                released == [u \in stale |-> ReleaseRow(developers[u], "INITIAL")]
                rows == Merge(developers, released)
                ids == SelectForUpdateSkipLocked(w, rows, "INITIAL", limit)
                pending == Merge(released, [u \in SeqToSet(ids) |-> ClaimRow(rows[u], w)])
            IN /\ developers' = get_cursor_commit(developers, pending)
               /\ call' = Returned("claim_batch_for_processing", <<w, limit>>, ids)
               /\ UNCHANGED childTables
    /\ UNCHANGED <<conn, workerVars, utilVars>>

OpUpdateProfile(u, p) ==
    /\ IF get_cursor_enter(conn).raised
       THEN /\ call' = Raised("update_profile", <<u, p>>)
            /\ UNCHANGED tables
       ELSE IF u \in DOMAIN developers
       THEN /\ developers' = get_cursor_commit(developers,
                                [x \in {u} |-> UpdateProfileRow(developers[u], p)])
            /\ social_links' = get_cursor_commit(social_links,
                  [x \in {u} |-> InsertSocialLinks(social_links[u], ProfileSocialLinks(p))])
            /\ repositories' = get_cursor_commit(repositories,
                  [x \in {u} |-> InsertRepositories(repositories[u], ProfileTopRepos(p))])
            /\ call' = Returned("update_profile", <<u, p>>, developers[u].id)
       ELSE /\ call' = Returned("update_profile", <<u, p>>, NULL)
            /\ UNCHANGED tables
    /\ UNCHANGED <<conn, workerVars, utilVars>>

OpMarkAsFailed(u) ==
    /\ u \in DOMAIN developers => developers[u].retry_count < MaxOpRetryCount
    /\ IF get_cursor_enter(conn).raised
       THEN /\ call' = Raised("mark_as_failed", u)
            /\ UNCHANGED tables
       ELSE /\ developers' = [x \in DOMAIN developers |->
                  IF x = u THEN MarkAsFailedRow(developers[x]) ELSE developers[x]]
            /\ call' = Returned("mark_as_failed", u, NULL)
            /\ UNCHANGED childTables
    /\ UNCHANGED <<conn, workerVars, utilVars>>

OpIncrementRetryCount(u) ==
    /\ u \in DOMAIN developers => developers[u].retry_count < MaxOpRetryCount
    /\ IF get_cursor_enter(conn).raised
       THEN /\ call' = Raised("increment_retry_count", u)
            /\ UNCHANGED tables
       ELSE /\ developers' = [x \in DOMAIN developers |->
                  IF x = u THEN IncrementRetryCountRow(developers[x], "INITIAL")
                  ELSE developers[x]]
            /\ call' = Returned("increment_retry_count", u,
                                IF u \in DOMAIN developers THEN developers'[u].retry_count ELSE 0)
            /\ UNCHANGED childTables
    /\ UNCHANGED <<conn, workerVars, utilVars>>

OpCountByStatus(status) ==
    /\ call' = IF get_cursor_enter(conn).raised
               THEN Raised("get_username_count_by_status", status)
               ELSE Returned("get_username_count_by_status", status, CountByStatus(status))
    /\ UNCHANGED <<tables, conn, workerVars, utilVars>>

\* the statuses the scrapers count (profile_scraper.py:194, username_scraper.py)
CountedStatuses == {"INITIAL", "PROFILED"}

NextOps ==
    \/ \E usernames \in OpInsertInputs : OpInsertUsernamesBatch(usernames)
    \/ \E limit \in BatchSizes : OpClaimBatch(1, limit)
    \/ \E u \in Usernames : \E p \in OpProfiles : OpUpdateProfile(u, p)
    \/ \E u \in Usernames : OpMarkAsFailed(u)
    \/ \E u \in Usernames : OpIncrementRetryCount(u)
    \/ \E status \in CountedStatuses : OpCountByStatus(status)
    \/ LoseConnection
    \/ Connect

SpecOps == Init /\ [][NextOps]_vars

\* fetch_profile(username) called on its own: the API answers each attempt as api
\* says; a mark_as_failed it makes goes to the store
OpFetchProfile(u, api) ==
    /\ conn = "open"
    /\ LET r == fetch_profile(api)
       IN /\ call' = Returned("fetch_profile", <<u, api>>, r)
          /\ IF r.result = "failed" /\ u \in DOMAIN developers
             THEN /\ developers[u].retry_count < MaxOpRetryCount
                  /\ developers' = [developers EXCEPT ![u] = MarkAsFailedRow(@)]
             ELSE developers' = developers
    /\ UNCHANGED <<childTables, conn, workerVars, utilVars>>

NextFetch ==
    \/ \E usernames \in InsertInputs : InsertUsernamesBatch(usernames)
    \/ \E u \in Usernames : \E api \in ApiInputs : OpFetchProfile(u, api)

SpecFetch == Init /\ [][NextFetch]_vars

TypeOK ==
    /\ \A u \in DOMAIN developers :
          /\ developers[u].enrichment_status \in EnrichmentStatus
          /\ developers[u].retry_count \in 0..(MaxRetryCount + NumWorkers)
    /\ DOMAIN social_links = DOMAIN developers

\* ======================================================================= claims

\* the items of its batch an instance has not finished with
Held(w) ==
    IF InBatch(w)
    THEN {claimed_usernames[w][k] : k \in pos[w]..Len(claimed_usernames[w])}
    ELSE {}

\* C1: the batches returned by claim calls that run concurrently (their
\* transactions overlap in time) are disjoint: a claim still open shares no
\* username with another open claim, nor with a claim that committed while it
\* was open.
ClaimsDisjoint ==
    \A w \in Workers : InClaimTx(w) =>
        /\ SeqToSet(tx[w].claimed) \cap overlap[w] = {}
        /\ \A v \in Workers \ {w} : InClaimTx(v) =>
              SeqToSet(tx[w].claimed) \cap SeqToSet(tx[v].claimed) = {}

\* two claims are open at once and each returns usernames
ClaimsDisjointWitness ==
    \E w \in Workers : \E v \in Workers \ {w} :
        /\ InClaimTx(w) /\ tx[w].claimed # <<>>
        /\ InClaimTx(v) /\ tx[v].claimed # <<>>

\* C2: no two instances are processing the same username at the same time:
\* while one is still at an item of its batch, no other instance is at it.
NoDoubleProcessing ==
    \A w \in Workers : \A v \in Workers \ {w} :
        (InBatch(w) /\ InBatch(v)) => Cur(w) # Cur(v)

\* C3: in every committed row, claimed_by and processing_started_at are set
\* exactly when enrichment_status is PROCESSING.
StatusInvariant ==
    \A u \in DOMAIN developers :
        /\ (developers[u].claimed_by # NULL) <=>
              (developers[u].enrichment_status = "PROCESSING")
        /\ (developers[u].processing_started_at # NULL) <=>
              (developers[u].enrichment_status = "PROCESSING")

\* one row is claimed while another has been handed back by increment_retry_count
StatusInvariantWitness ==
    \E u \in DOMAIN developers : \E v \in DOMAIN developers :
        /\ developers[u].enrichment_status = "PROCESSING"
        /\ developers[u].claimed_by # NULL
        /\ developers[v].enrichment_status = "INITIAL"
        /\ developers[v].retry_count > 0

\* the status changes the documentation names
StatusEdges ==
    {<<"INITIAL", "PROCESSING">>, <<"PROCESSING", "PROFILED">>,
     <<"PROCESSING", "INITIAL">>, <<"PROCESSING", "FAILED">>,
     <<"PROFILED", "ENHANCED">>, <<"PROFILED", "FAILED">>}

\* C4: a row's enrichment_status changes only along the documented edges.
StatusTransitions ==
    [][\A u \in DOMAIN developers :
          \/ developers'[u].enrichment_status = developers[u].enrichment_status
          \/ <<developers[u].enrichment_status, developers'[u].enrichment_status>>
                \in StatusEdges]_vars

\* C5: a claim releases a PROCESSING row exactly when its processing_started_at
\* is more than the timeout in the past: such a row ends the claim's statements
\* reset to INITIAL with its claim cleared, or claimed afresh by the caller; a
\* PROCESSING row claimed more recently is not written, and the commit changes
\* no row but those.
StaleReleaseThreshold ==
    [][\A w \in Workers :
          /\ (~InClaimTx(w) /\ pc'[w] = "claim_commit") =>
                \A u \in DOMAIN developers :
                   developers[u].enrichment_status = "PROCESSING" =>
                      IF developers[u].processing_started_at > timeout_minutes
                      THEN /\ u \in DOMAIN tx'[w].rows
                           /\ \/ tx'[w].rows[u] =
                                    [developers[u] EXCEPT !.enrichment_status = "INITIAL",
                                                          !.claimed_by = NULL,
                                                          !.processing_started_at = NULL]
                              \/ /\ u \in SeqToSet(tx'[w].claimed)
                                 /\ tx'[w].rows[u] =
                                       [developers[u] EXCEPT !.claimed_by = w,
                                                             !.processing_started_at = 0]
                      ELSE u \notin DOMAIN tx'[w].rows
          /\ (InClaimTx(w) /\ pc'[w] # "claim_commit") =>
                \A u \in DOMAIN developers :
                   \/ developers'[u] = developers[u]
                   \/ u \in DOMAIN tx[w].rows /\ developers'[u] = tx[w].rows[u]]_vars

\* an open claim has released a stale row while another PROCESSING row, claimed
\* exactly the timeout ago, is not among its writes
StaleReleaseThresholdWitness ==
    \E w \in Workers :
        /\ InClaimTx(w)
        /\ \E u \in DOMAIN tx[w].rows :
              /\ developers[u].enrichment_status = "PROCESSING"
              /\ developers[u].processing_started_at > timeout_minutes
        /\ \E v \in DOMAIN developers :
              /\ developers[v].enrichment_status = "PROCESSING"
              /\ developers[v].processing_started_at = timeout_minutes
              /\ v \notin DOMAIN tx[w].rows

\* a row left PROCESSING under a claim whose instance is no longer at it
Orphaned(u) ==
    /\ u \in DOMAIN developers
    /\ developers[u].enrichment_status = "PROCESSING"
    /\ \A w \in Workers : developers[u].claimed_by = w => u \notin Held(w)

RetryMonotone ==
    [][/\ \A u \in DOMAIN developers :
             \/ developers'[u].retry_count = developers[u].retry_count
             \/ developers'[u].retry_count = developers[u].retry_count + 1
             \/ /\ developers'[u].retry_count = 0
                /\ developers'[u].enrichment_status = "PROFILED"
                /\ \E w \in Workers : pc[w] = "update_profile" /\ u \in DOMAIN tx[w].rows
       /\ \A u \in DOMAIN developers :
             (developers'[u].enrichment_status = "FAILED" /\ developers'[u] # developers[u])
                => developers'[u].retry_count = developers[u].retry_count + 1
       /\ \A w \in Workers :
             /\ (pc[w] \in {"handler", "handler_after_commit"} /\ pc'[w] \in {"fetch", "loop"})
                   => developers'[Cur(w)].retry_count = developers[Cur(w)].retry_count + 1
             /\ (pc[w] = "update_profile"
                    /\ pc'[w] \in {"fetch", "loop", "handler_after_commit"})
                   => \A u \in DOMAIN tx[w].rows : developers'[u].retry_count = 0
             /\ (~InClaimTx(w) /\ pc'[w] = "claim_commit")
                   => \A u \in DOMAIN tx'[w].rows :
                         tx'[w].rows[u].retry_count = developers[u].retry_count
             /\ (InClaimTx(w) /\ pc'[w] # "claim_commit")
                   => \A u \in DOMAIN developers :
                         developers'[u].retry_count = developers[u].retry_count]_vars

\* an update_profile is about to reset a retry_count that is above 0, while
\* another row has been failed
RetryMonotoneWitness ==
    \E w \in Workers :
        /\ pc[w] = "update_profile"
        /\ \E u \in DOMAIN tx[w].rows :
              developers[u].retry_count > 0 /\ tx[w].rows[u].retry_count = 0
        /\ \E v \in DOMAIN developers :
              developers[v].enrichment_status = "FAILED" /\ developers[v].retry_count > 0

\* C8: an update_profile that fails after its UPDATE statement (in the social
\* link rows, in the repository rows, at the commit, or because the instance
\* dies) leaves the row and its child rows exactly as they were; one that
\* returns has written all of them; the profile fields and the child rows
\* never change without the row being PROFILED with its claim cleared.
CommitAtomic ==
    [][/\ \A w \in Workers :
             pc[w] = "update_profile" =>
                LET u == PendingUsername(w)
                    sl == ProfileSocialLinks(PendingProfile(w))
                    top == ProfileTopRepos(PendingProfile(w))
                IN /\ pc'[w] \in {"handler", "idle"} =>
                         /\ developers'[u] = developers[u]
                         /\ social_links'[u] = social_links[u]
                         /\ repositories'[u] = repositories[u]
                   /\ pc'[w] \in {"fetch", "loop", "handler_after_commit"} =>
                         /\ developers'[u].enrichment_status = "PROFILED"
                         /\ developers'[u].retry_count = 0
                         /\ developers'[u].claimed_by = NULL
                         /\ developers'[u].processing_started_at = NULL
                         /\ developers'[u].name = PendingProfile(w)
                         /\ \A k \in DOMAIN sl.links :
                               sl.links[k] # "NULL" =>
                                  /\ k \in DOMAIN social_links'[u]
                                  /\ social_links'[u][k] = sl.links[k]
                         /\ \A n \in 1..Len(top) : top[n] \in DOMAIN repositories'[u]
       /\ \A u \in DOMAIN developers :
             (\/ developers'[u].name # developers[u].name
              \/ social_links'[u] # social_links[u]
              \/ repositories'[u] # repositories[u])
                => /\ developers'[u].enrichment_status = "PROFILED"
                   /\ developers'[u].claimed_by = NULL
                   /\ developers'[u].retry_count = 0]_vars

\* an update_profile has run its UPDATE on a claimed row that has no profile
\* and no child rows yet
CommitAtomicWitness ==
    \E w \in Workers :
        /\ pc[w] = "update_profile"
        /\ \E u \in DOMAIN tx[w].rows :
              /\ developers[u].enrichment_status = "PROCESSING"
              /\ developers[u].name = NULL
              /\ social_links[u] = EmptyFn
              /\ tx[w].rows[u].enrichment_status = "PROFILED"

\* every item of the batch was fetched and committed, or failed by fetch_profile
FetchedOrFailed(w) ==
    \A k \in 1..Len(results[w]) : results[w][k] \in {"ok", "failed"}

\* C9 as stated: after a single instance has processed such a batch, every
\* succeeded item is PROFILED with retry_count 0, every failed item is FAILED
\* with retry_count 1, and no item of the batch is PROCESSING.
BatchOutcomeFresh ==
    \A w \in Workers :
        (pc[w] = "loop" /\ FetchedOrFailed(w)) =>
            \A k \in 1..Len(results[w]) :
                LET row == developers[claimed_usernames[w][k]]
                IN /\ results[w][k] = "ok" =>
                         row.enrichment_status = "PROFILED" /\ row.retry_count = 0
                   /\ results[w][k] = "failed" =>
                         row.enrichment_status = "FAILED" /\ row.retry_count = 1
                   /\ row.enrichment_status # "PROCESSING"

\* C9: after a single instance has processed such a batch, every succeeded
\* item is PROFILED with retry_count 0, every failed item is FAILED with the
\* retry_count it was claimed with plus 1, and no item of the batch is PROCESSING.
BatchOutcome ==
    \A w \in Workers :
        (pc[w] = "loop" /\ FetchedOrFailed(w)) =>
            \A k \in 1..Len(results[w]) :
                LET row == developers[claimed_usernames[w][k]]
                IN /\ results[w][k] = "ok" =>
                         row.enrichment_status = "PROFILED" /\ row.retry_count = 0
                   /\ results[w][k] = "failed" =>
                         /\ row.enrichment_status = "FAILED"
                         /\ row.retry_count = claimed_retry[w][k] + 1
                   /\ row.enrichment_status # "PROCESSING"

\* a batch of two is done: one item committed, one failed
BatchOutcomeWitness ==
    \E w \in Workers :
        /\ pc[w] = "loop"
        /\ Len(results[w]) = 2
        /\ "ok" \in SeqToSet(results[w])
        /\ "failed" \in SeqToSet(results[w])

\* C10: whenever fetch_profile has returned None for an item of the batch,
\* mark_as_failed has run exactly once for it: the row is FAILED, its claim is
\* cleared and its retry_count is one above what it was claimed with.
FetchGiveUpMarksFailed ==
    \A w \in Workers :
        \A k \in 1..Len(results[w]) :
            results[w][k] \in {"none", "failed"} =>
                LET row == developers[claimed_usernames[w][k]]
                IN /\ row.enrichment_status = "FAILED"
                   /\ row.claimed_by = NULL
                   /\ row.processing_started_at = NULL
                   /\ row.retry_count = claimed_retry[w][k] + 1

\* C11: a rate-limited attempt does not use up the MAX_RETRIES budget: when
\* fetch_profile gives up, MAX_RETRIES of its API calls have failed for another
\* reason than the rate limit.
QuotaKeepsBudget ==
    (call.op = "fetch_profile" /\ call.ret.result # "profile") =>
        call.ret.calls - call.ret.rate_limit = MAX_RETRIES

\* C12: a permanent error is not retried: when the first API call of
\* fetch_profile fails permanently, the item is marked FAILED after that one
\* call, with no backoff sleep.
PermanentNotRetried ==
    (call.op = "fetch_profile" /\ call.arg[2][1] = "permanent") =>
        /\ call.ret.result = "failed"
        /\ call.ret.calls = 1
        /\ call.ret.sleeps = <<>>
        /\ call.arg[1] \in DOMAIN developers =>
              developers[call.arg[1]].enrichment_status = "FAILED"

InHandler(w) == pc[w] \in {"handler", "handler_after_commit"}

\* C13: an exception raised while a claimed item is handled (by update_profile
\* in particular) reaches the handler at the same item, and the handler's
\* increment_retry_count leaves the row INITIAL, with its claim cleared and
\* retry_count one higher, so that a claim by any instance would return it.
RecordRetryOnError ==
    [][\A w \in Workers :
          /\ (pc[w] \in {"fetch", "update_profile"} /\ InHandler(w)')
                => (pos'[w] = pos[w] /\ claimed_usernames'[w] = claimed_usernames[w])
          /\ (InHandler(w) /\ pc'[w] \in {"fetch", "loop"}) =>
                LET u == Cur(w)
                IN /\ developers'[u].enrichment_status = "INITIAL"
                   /\ developers'[u].claimed_by = NULL
                   /\ developers'[u].processing_started_at = NULL
                   /\ developers'[u].retry_count = developers[u].retry_count + 1
                   /\ \A v \in Workers :
                         u \in SeqToSet(SelectForUpdateSkipLocked(v, developers', "INITIAL",
                                                                  Cardinality(DOMAIN developers')))]_vars

\* the handler has returned an item whose update_profile could not commit
RecordRetryOnErrorWitness ==
    \E w \in Workers : \E k \in 1..Len(results[w]) :
        /\ results[w][k] = "other"
        /\ developers[claimed_usernames[w][k]].enrichment_status = "INITIAL"
        /\ developers[claimed_usernames[w][k]].name = NULL
        /\ developers[claimed_usernames[w][k]].retry_count = claimed_retry[w][k] + 1

FailedTerminal ==
    [][\A u \in DOMAIN developers :
          developers[u].enrichment_status = "FAILED" =>
             /\ developers'[u].enrichment_status = "FAILED"
             /\ \A w \in Workers : u \notin SeqToSet(tx'[w].claimed)]_vars

\* the rows insert_usernames_batch is asked to create
Inserted(usernames, table) == SeqToSet(usernames) \ DOMAIN table

\* C16: insert_usernames_batch on an open connection does not raise, leaves
\* every existing row and its child rows as they were whatever the status,
\* keeps one row per username with ids distinct, and creates each new username
\* INITIAL with retry_count 0 and no claim.
IdempotentInsert ==
    [][\A usernames \in OpInsertInputs :
          (conn = "open" /\ OpInsertUsernamesBatch(usernames)) =>
             /\ ~call'.raised
             /\ DOMAIN developers' = DOMAIN developers \cup SeqToSet(usernames)
             /\ \A u \in DOMAIN developers :
                   /\ developers'[u] = developers[u]
                   /\ social_links'[u] = social_links[u]
                   /\ repositories'[u] = repositories[u]
             /\ \A u \in Inserted(usernames, developers) :
                   /\ developers'[u].enrichment_status = "INITIAL"
                   /\ developers'[u].retry_count = 0
                   /\ developers'[u].claimed_by = NULL
                   /\ developers'[u].processing_started_at = NULL
                   /\ developers'[u].name = NULL
             /\ \A u \in DOMAIN developers' : \A v \in DOMAIN developers' :
                   developers'[u].id = developers'[v].id => u = v]_vars

\* the last call inserted a username whose row is not INITIAL: it was there before
IdempotentInsertWitness ==
    /\ call.op = "insert_usernames_batch"
    /\ ~call.raised
    /\ \E u \in SeqToSet(call.arg) :
          developers[u].enrichment_status \in {"PROCESSING", "PROFILED", "FAILED"}

\* C17: the count insert_usernames_batch returns is the number of usernames of
\* the batch that had no row before the call.
InsertCount ==
    [][\A usernames \in OpInsertInputs :
          (conn = "open" /\ OpInsertUsernamesBatch(usernames)) =>
             call'.ret = Cardinality(Inserted(usernames, developers))]_vars

\* C18: after update_profile has returned an id, the item's social_links rows
\* are exactly those of the profile and its repositories rows exactly the
\* profile's top_repos.
ChildRowsReplaced ==
    (call.op = "update_profile" /\ ~call.raised /\ call.ret # NULL) =>
        LET u == call.arg[1]
            p == call.arg[2]
        IN /\ social_links[u] = InsertSocialLinks(EmptyFn, ProfileSocialLinks(p))
           /\ DOMAIN repositories[u] = SeqToSet(ProfileTopRepos(p))

\* C19: the driver loop of scrape_profiles starts a claim only after a target
\* check that found fewer PROFILED rows than the target; a check that finds the
\* target reached ends the run, and so does a claim that returns no username.
DriverStops ==
    [][\A w \in Workers :
          /\ (~InClaimTx(w) /\ pc'[w] = "claim_commit") =>
                /\ pc[w] \in {"idle", "loop"}
                /\ CountByStatus("PROFILED") < TARGET_PROFILES
          /\ (pc[w] = "loop" /\ CountByStatus("PROFILED") >= TARGET_PROFILES
                 /\ pc'[w] # pc[w]) => pc'[w] = "idle"
          /\ (InClaimTx(w) /\ tx[w].claimed = <<>> /\ pc'[w] # pc[w]) => pc'[w] = "idle"]_vars

\* one instance has ended at the target while another holds a claim that
\* returns nothing
DriverStopsWitness ==
    /\ CountByStatus("PROFILED") >= TARGET_PROFILES
    /\ \E w \in Workers : \E v \in Workers \ {w} :
          /\ pc[w] = "idle"
          /\ InClaimTx(v)
          /\ tx[v].claimed = <<>>

\* C20: an operation that meets a lost connection raises only after the
\* repository has tried to reconnect.
ReconnectBeforeFatal ==
    (call.op # "none" /\ call.raised) => call.connects >= 1

\* ============================================= connect, credentials, discovery, metrics
\* The remaining components, each operation called directly and running to its
\* end in one step; what the outside answers (the database server, the GitHub
\* API) is an argument of the operation.

ConnectOutcomes == {"ok", "fail"}

ConnectInputs == [1..MAX_RETRIES -> ConnectOutcomes]

ConnectEvent == [ev |-> "connect", s |-> 0]

SleepEvent(s) == [ev |-> "sleep", s |-> s]

NoConnect == [events |-> <<>>, connected |-> FALSE, raised |-> FALSE]

\* connect() that sleeps after every failed attempt, the last one included
RECURSIVE connect_from_sleep_always(_, _, _)
connect_from_sleep_always(attempt, outcomes, acc) ==
    IF attempt >= MAX_RETRIES THEN acc
    ELSE LET tried == [acc EXCEPT !.events = Append(@, ConnectEvent)]
             delay == RETRY_DELAY * (IF EXPONENTIAL_BACKOFF THEN Pow2(attempt) ELSE 1)
             slept == [tried EXCEPT !.events = Append(@, SleepEvent(delay))]
         IN IF outcomes[attempt + 1] = "ok"
            THEN [tried EXCEPT !.connected = TRUE]
            ELSE IF attempt < MAX_RETRIES - 1
                 THEN connect_from_sleep_always(attempt + 1, outcomes, slept)
                 ELSE [slept EXCEPT !.raised = TRUE]

\* DatabaseRepository.connect from the given value of the loop variable:
\* psycopg2.connect answers attempt k as outcomes[k + 1] says
RECURSIVE connect_from(_, _, _)
connect_from(attempt, outcomes, acc) ==
    IF attempt >= MAX_RETRIES THEN acc
    ELSE LET tried == [acc EXCEPT !.events = Append(@, ConnectEvent)]
             delay == RETRY_DELAY * (IF EXPONENTIAL_BACKOFF THEN Pow2(attempt) ELSE 1)
         IN IF outcomes[attempt + 1] = "ok"
            THEN [tried EXCEPT !.connected = TRUE]
            ELSE IF attempt < MAX_RETRIES - 1
                 THEN connect_from(attempt + 1, outcomes,
                                   [tried EXCEPT !.events = Append(@, SleepEvent(delay))])
                 ELSE [tried EXCEPT !.raised = TRUE]

connect(outcomes) == connect_from(0, outcomes, NoConnect)

\* repo.connect(): self.conn is assigned only by an attempt that succeeds
OpConnect(outcomes) ==
    /\ LET r == connect(outcomes)
       IN /\ conn' = IF r.connected THEN "open" ELSE conn
          /\ call' = [op |-> "connect", arg |-> outcomes, raised |-> r.raised,
                      ret |-> r,
                      connects |-> Cardinality({k \in DOMAIN r.events : r.events[k].ev = "connect"})]
    /\ UNCHANGED <<tables, workerVars, utilVars>>

\* ------------------------------------------------------------------ C21
FirstOk(outcomes) ==
    IF \E k \in DOMAIN outcomes : outcomes[k] = "ok"
    THEN CHOOSE k \in DOMAIN outcomes :
            outcomes[k] = "ok" /\ \A j \in 1..(k - 1) : outcomes[j] # "ok"
    ELSE 0

\* C21: connect() makes at most MAX_RETRIES attempts, stops at the first success,
\* sleeps exactly once between two consecutive attempts and never after the last
\* one (k failures then a success: k + 1 attempts, k sleeps), and raises exactly
\* when the MAX_RETRIES-th attempt fails.
ConnectBounded ==
    call.op = "connect" =>
        LET ev == call.ret.events
            k == FirstOk(call.arg)
            attempts == IF k = 0 THEN MAX_RETRIES ELSE k
        IN /\ call.connects = attempts
           /\ call.connects <= MAX_RETRIES
           /\ Len(ev) = 2 * attempts - 1
           /\ \A i \in DOMAIN ev : ev[i].ev = (IF i % 2 = 1 THEN "connect" ELSE "sleep")
           /\ \A i \in DOMAIN ev : ev[i].ev = "sleep" => ev[i].s > 0
           /\ call.raised <=> k = 0
           /\ call.ret.connected <=> k # 0
           /\ call.ret.connected => conn = "open"

ConnectBoundedWitness ==
    /\ call.op = "connect"
    /\ call.arg = <<"fail", "fail", "ok">>
    /\ call.connects = 3
    /\ ~call.raised
    /\ conn = "open"

\* ------------------------------------------------------ GitHubClientManager
\* settings.github.TOKENS holds 1 to 9 tokens; token k of the pool is the value k
TokenPools == {[k \in 1..n |-> k] : n \in 1..MaxTokens}

\* the quota window of a credential: as long as the cooldown of handle_rate_limit,
\* or longer (the core quota resets hourly)
Windows == {TOKEN_ROTATION_DELAY, MaxWindowDelays * TOKEN_ROTATION_DELAY}

MaxClock == MaxClockDelays * TOKEN_ROTATION_DELAY

_create_client(token) == [token |-> token]

\* the list element self.tokens[i] (Python indexes from 0)
TokenAt(i) == tokens[i + 1]

Exhausted(token) == now < quota_reset[token]

AllExhausted == \A k \in DOMAIN tokens : Exhausted(tokens[k])

\* a rotation that stops at the last token
next_token_index_nowrap(i, n) == IF i + 1 < n THEN i + 1 ELSE i

\* (self.current_token_index + 1) % len(self.tokens)
next_token_index(i, n) == (i + 1) % n

\* GitHubClientManager.__init__
ClientManagerInit(pool) ==
    /\ tokens = <<>>
    /\ tokens' = pool
    /\ current_token_index' = 0
    /\ github' = _create_client(pool[1])
    /\ quota_reset' = [k \in DOMAIN pool |-> 0]
    /\ call' = [op |-> "__init__", arg |-> pool, raised |-> FALSE, ret |-> NULL, connects |-> 0]
    /\ UNCHANGED <<now, metrics, search, scrapers, claimed_from, tables, workerVars, conn>>

\* rotate_token: the two assignments
Rotate ==
    /\ current_token_index' = next_token_index(current_token_index, Len(tokens))
    /\ github' = _create_client(tokens[current_token_index' + 1])

\* history kept with a rotate_token call: where the run of consecutive rotations
\* started and how many rotations it has (a run ends after len(tokens) rotations)
RotationRun ==
    IF call.op = "rotate_token" /\ call.ret.n < Len(tokens)
    THEN [start |-> call.ret.start, n |-> call.ret.n + 1]
    ELSE [start |-> current_token_index, n |-> 1]

OpRotateToken ==
    /\ tokens # <<>>
    /\ Rotate
    /\ call' = [op |-> "rotate_token", arg |-> current_token_index, raised |-> FALSE,
                ret |-> RotationRun, connects |-> 0]
    /\ UNCHANGED <<tokens, now, quota_reset, metrics, search, scrapers, claimed_from, tables, workerVars, conn>>

\* handle_rate_limit, called by the scrapers on RateLimitExceededException:
\* rotate_token(), then time.sleep(TOKEN_ROTATION_DELAY)
OpHandleRateLimit ==
    /\ tokens # <<>>
    /\ Exhausted(github.token)
    /\ now + TOKEN_ROTATION_DELAY <= MaxClock
    /\ Rotate
    /\ now' = now + TOKEN_ROTATION_DELAY
    /\ call' = [op |-> "handle_rate_limit", arg |-> current_token_index, raised |-> FALSE,
                ret |-> [all_exhausted |-> AllExhausted, slept |-> TOKEN_ROTATION_DELAY],
                connects |-> 0]
    /\ UNCHANGED <<tokens, quota_reset, metrics, search, scrapers, claimed_from, tables, workerVars, conn>>

\* one request through get_client(): GitHub refuses it while the credential is
\* exhausted; a request it serves may be the last of the quota, which then
\* resets window seconds later (window = 0: quota is left)
OpApiCall(window) ==
    /\ tokens # <<>>
    /\ IF Exhausted(github.token)
       THEN /\ call' = [op |-> "api_call", arg |-> github.token, raised |-> TRUE,
                        ret |-> "rate_limit", connects |-> 0]
            /\ UNCHANGED quota_reset
       ELSE /\ call' = [op |-> "api_call", arg |-> github.token, raised |-> FALSE,
                        ret |-> "ok", connects |-> 0]
            /\ quota_reset' = IF window = 0 THEN quota_reset
                              ELSE [quota_reset EXCEPT ![github.token] = now + window]
    /\ UNCHANGED <<tokens, current_token_index, github, now, metrics, search, scrapers, claimed_from, tables, workerVars, conn>>

\* time passing between two operations
TimePasses ==
    /\ now + TOKEN_ROTATION_DELAY <= MaxClock
    /\ now' = now + TOKEN_ROTATION_DELAY
    /\ UNCHANGED <<tokens, current_token_index, github, quota_reset, metrics, search, scrapers, claimed_from, tables, workerVars, opVars>>

\* ------------------------------------------------------------------ C22
\* C22: rotate_token moves current_token_index to (index + 1) mod N, the index is
\* always in 0..N-1, N consecutive rotations return to the credential they started
\* from, and the active client is always the one built from
\* tokens[current_token_index].
RotationCircular ==
    /\ [](tokens # <<>> =>
            /\ current_token_index \in 0..(Len(tokens) - 1)
            /\ github = _create_client(TokenAt(current_token_index))
            /\ (call.op = "rotate_token" /\ call.ret.n = Len(tokens)) =>
                  /\ current_token_index = call.ret.start
                  /\ github.token = TokenAt(call.ret.start))
    /\ [][(tokens # <<>> /\ current_token_index' # current_token_index) =>
            current_token_index' = (current_token_index + 1) % Len(tokens)]_vars
    /\ [][(call'.op = "rotate_token" /\ call' # call /\ Len(tokens) > 1) =>
            current_token_index' # current_token_index]_vars

RotationCircularWitness ==
    /\ Len(tokens) = 3
    /\ call.op = "rotate_token"
    /\ call.ret.n = 3
    /\ call.ret.start = 1
    /\ current_token_index = 1

\* ------------------------------------------------------------------ C23
\* C23: when handle_rate_limit is entered with every credential of the pool
\* exhausted, the next API call is issued only after the quota of the credential it
\* uses has reset: it is not refused for quota.
QuotaResetAwaited ==
    [][(call.op = "handle_rate_limit" /\ call.ret.all_exhausted /\ call'.op = "api_call")
          => ~call'.raised]_vars

\* --------------------------------------------------------- MetricsCollector
NewScraperMetrics ==
    [total_processed |-> 0, total_success |-> 0, total_failed |-> 0,
     total_retries |-> 0, rate_limit_hits |-> 0]

Counters == DOMAIN NewScraperMetrics

KnownScrapers == {"username_scraper", "profile_scraper", "social_scraper"}

\* settings.metrics.ENABLED, read once by MetricsCollector.__init__
METRICS_ENABLED == TRUE

\* argument of increment: the names the scrapers use and one nobody registered
ScraperArgs == KnownScrapers \cup {"other_scraper"}

MetricArgs == {"processed", "success", "failed", "retries", "rate_limit", "other"}

MetricValues == 0..MaxMetricTotal

ScraperTotal(sm) ==
    sm.total_processed + sm.total_success + sm.total_failed + sm.total_retries
        + sm.rate_limit_hits

RECURSIVE SumOver(_, _)
SumOver(S, m) ==
    IF S = {} THEN 0
    ELSE LET x == CHOOSE y \in S : TRUE IN ScraperTotal(m[x]) + SumOver(S \ {x}, m)

MetricTotal(m) == SumOver(DOMAIN m, m)

\* the if/elif chain of increment, with 'retries' counted as a rate limit hit
ScraperMetricsAddConfused(sm, metric, value) ==
    IF metric = "processed" THEN [sm EXCEPT !.total_processed = @ + value]
    ELSE IF metric = "success" THEN [sm EXCEPT !.total_success = @ + value]
    ELSE IF metric = "failed" THEN [sm EXCEPT !.total_failed = @ + value]
    ELSE IF metric = "retries" THEN [sm EXCEPT !.rate_limit_hits = @ + value]
    ELSE IF metric = "rate_limit" THEN [sm EXCEPT !.rate_limit_hits = @ + value]
    ELSE sm

\* the if/elif chain of increment on one ScraperMetrics
ScraperMetricsAdd(sm, metric, value) ==
    IF metric = "processed" THEN [sm EXCEPT !.total_processed = @ + value]
    ELSE IF metric = "success" THEN [sm EXCEPT !.total_success = @ + value]
    ELSE IF metric = "failed" THEN [sm EXCEPT !.total_failed = @ + value]
    ELSE IF metric = "retries" THEN [sm EXCEPT !.total_retries = @ + value]
    ELSE IF metric = "rate_limit" THEN [sm EXCEPT !.rate_limit_hits = @ + value]
    ELSE sm

\* MetricsCollector.increment
increment(m, scraper, metric, value) ==
    IF ~METRICS_ENABLED THEN m
    ELSE IF scraper \in DOMAIN m
         THEN [m EXCEPT ![scraper] = ScraperMetricsAdd(@, metric, value)]
         ELSE m

\* MetricsCollector.reset(scraper): self.metrics[scraper] = ScraperMetrics()
reset(m, scraper) == Merge(m, [s \in {scraper} |-> NewScraperMetrics])

\* MetricsCollector.reset()
reset_all(m) == [s \in DOMAIN m |-> NewScraperMetrics]

OpIncrement(scraper, metric, value) ==
    /\ MetricTotal(metrics) + value <= MaxMetricTotal
    /\ metrics' = increment(metrics, scraper, metric, value)
    /\ UNCHANGED <<rotatorVars, search, scrapers, claimed_from, tables, workerVars, opVars>>

OpReset(scraper) ==
    /\ metrics' = reset(metrics, scraper)
    /\ UNCHANGED <<rotatorVars, search, scrapers, claimed_from, tables, workerVars, opVars>>

OpResetAll ==
    /\ metrics' = reset_all(metrics)
    /\ UNCHANGED <<rotatorVars, search, scrapers, claimed_from, tables, workerVars, opVars>>

NextMetrics ==
    \/ \E scraper \in ScraperArgs : \E metric \in MetricArgs : \E value \in MetricValues :
          OpIncrement(scraper, metric, value)
    \/ \E scraper \in KnownScrapers : OpReset(scraper)
    \/ OpResetAll

SpecMetrics == Init /\ [][NextMetrics]_vars

\* ------------------------------------------------------------------ C27
\* the counter that metric names
CounterOf(metric) ==
    CASE metric = "processed" -> "total_processed"
      [] metric = "success" -> "total_success"
      [] metric = "failed" -> "total_failed"
      [] metric = "retries" -> "total_retries"
      [] metric = "rate_limit" -> "rate_limit_hits"

SearchResults == UNION {[1..n -> Usernames] : n \in 0..MaxResults}

\* line 72 without the ceiling
SearchCapNever(count) == FALSE

\* line 72: count >= settings.github.SEARCH_MAX_RESULTS
SearchCapReached(count) == count >= SEARCH_MAX_RESULTS

\* a save that drops the batch
SaveBatchDropped(batch) == UNCHANGED tables

\* self.db.insert_usernames_batch(batch) followed by
\* metrics.increment(self.scraper_name, 'success', inserted)
SaveBatch(batch) ==
    /\ developers' = insert_usernames_batch(developers, batch)
    /\ social_links' = Merge([u \in DOMAIN developers' |-> EmptyFn], social_links)
    /\ repositories' = Merge([u \in DOMAIN developers' |-> EmptyFn], repositories)

SavedMetrics(m, batch) ==
    increment(m, "username_scraper", "success", execute_batch_rowcount(developers, batch))

\* the next pass of the inner loop, or the end of the inner loop
NextYear(s) ==
    IF s.year < NumYears
    THEN [s EXCEPT !.pc = "year_head", !.year = @ + 1]
    ELSE [s EXCEPT !.pc = "location_end"]

\* search_users up to the first pass of the loops (lines 29-40)
SearchStart ==
    /\ search.pc = "idle"
    /\ tokens # <<>>
    /\ search' = [pc |-> "year_head", location |-> 1, year |-> 1, users |-> <<>>,
                  count |-> 0, batch_usernames |-> <<>>, taken |-> <<>>]
    /\ UNCHANGED <<tables, rotatorVars, metrics, workerVars, opVars, scrapers, claimed_from>>

\* lines 42-53: the target check, then the query is issued
YearHead(found) ==
    /\ search.pc = "year_head"
    /\ IF CountByStatus("INITIAL") >= TARGET_USERNAMES
       THEN search' = [search EXCEPT !.pc = "location_end"]
       ELSE search' = [search EXCEPT !.pc = "iterating", !.users = found, !.count = 0,
                                     !.taken = <<>>]
    /\ UNCHANGED <<tables, rotatorVars, metrics, workerVars, opVars, scrapers, claimed_from>>

\* lines 55-84, one iteration of `for user in users` that yields a user; leaving
\* the loop includes the save of the remaining batch (lines 76-79)
TakeUser ==
    LET user == Head(search.users)
        batch == Append(search.batch_usernames, user)
        count == search.count + 1
        full == Len(batch) >= BATCH_SIZE
        table == IF full THEN insert_usernames_batch(developers, batch) ELSE developers
        kept == IF full THEN <<>> ELSE batch
        counted == increment(metrics, "username_scraper", "processed", 1)
        saved == IF full THEN SavedMetrics(counted, batch) ELSE counted
        initial == Cardinality({u \in DOMAIN table : table[u].enrichment_status = "INITIAL"})
        leave == initial >= TARGET_USERNAMES \/ SearchCapReached(count)
        s == [search EXCEPT !.users = Tail(@), !.count = count, !.taken = Append(@, user)]
    IN IF ~leave
       THEN /\ search' = [s EXCEPT !.batch_usernames = kept]
            /\ metrics' = saved
            /\ IF full THEN SaveBatch(batch) ELSE UNCHANGED tables
       ELSE /\ search' = NextYear([s EXCEPT !.batch_usernames = <<>>])
            /\ IF kept # <<>>
               THEN /\ SaveBatch(kept)
                    /\ metrics' = SavedMetrics(saved, kept)
               ELSE /\ metrics' = saved
                    /\ IF full THEN SaveBatch(batch) ELSE UNCHANGED tables

\* the list is exhausted: lines 75-84
UsersExhausted ==
    /\ search' = NextYear([search EXCEPT !.batch_usernames = <<>>])
    /\ IF search.batch_usernames # <<>>
       THEN /\ SaveBatch(search.batch_usernames)
            /\ metrics' = SavedMetrics(metrics, search.batch_usernames)
       ELSE UNCHANGED <<tables, metrics>>

Iterate ==
    /\ search.pc = "iterating"
    /\ IF search.users = <<>> THEN UsersExhausted ELSE TakeUser
    /\ UNCHANGED <<rotatorVars, workerVars, opVars, scrapers, claimed_from>>

\* lines 86-95: RateLimitExceededException while the list is read
IterateRateLimit ==
    /\ search.pc = "iterating"
    /\ now + TOKEN_ROTATION_DELAY <= MaxClock
    /\ search' = NextYear([search EXCEPT !.batch_usernames = <<>>])
    /\ IF search.batch_usernames # <<>>
       THEN /\ SaveBatch(search.batch_usernames)
            /\ metrics' = increment(SavedMetrics(metrics, search.batch_usernames),
                                    "username_scraper", "rate_limit", 1)
       ELSE /\ metrics' = increment(metrics, "username_scraper", "rate_limit", 1)
            /\ UNCHANGED tables
    /\ Rotate
    /\ now' = now + TOKEN_ROTATION_DELAY
    /\ UNCHANGED <<tokens, quota_reset, workerVars, opVars, scrapers, claimed_from>>

\* lines 97-101: any other exception while the list is read
IterateError ==
    /\ search.pc = "iterating"
    /\ search' = NextYear(search)
    /\ metrics' = increment(metrics, "username_scraper", "failed", 1)
    /\ UNCHANGED <<tables, rotatorVars, workerVars, opVars, scrapers, claimed_from>>

\* lines 103-106: the check after the inner loop
LocationEnd ==
    /\ search.pc = "location_end"
    /\ search' = IF CountByStatus("INITIAL") >= TARGET_USERNAMES
                    \/ search.location >= NumLocations
                 THEN [search EXCEPT !.pc = "final_save"]
                 ELSE [search EXCEPT !.pc = "year_head", !.location = @ + 1, !.year = 1]
    /\ UNCHANGED <<tables, rotatorVars, metrics, workerVars, opVars, scrapers, claimed_from>>

\* lines 108-114
FinalSave ==
    /\ search.pc = "final_save"
    /\ search' = [search EXCEPT !.pc = "done", !.batch_usernames = <<>>]
    /\ IF search.batch_usernames # <<>>
       THEN /\ SaveBatch(search.batch_usernames)
            /\ metrics' = SavedMetrics(metrics, search.batch_usernames)
       ELSE UNCHANGED <<tables, metrics>>
    /\ UNCHANGED <<rotatorVars, workerVars, opVars, scrapers, claimed_from>>

NextDiscovery ==
    \/ \E pool \in TokenPools : ClientManagerInit(pool)
    \/ SearchStart
    \/ \E found \in SearchResults : YearHead(found)
    \/ Iterate
    \/ IterateRateLimit
    \/ IterateError
    \/ LocationEnd
    \/ FinalSave

SpecDiscovery == Init /\ [][NextDiscovery]_vars

\* ------------------------------------------------------------------ C24
\* C24: search_users never takes more than SEARCH_MAX_RESULTS results from one
\* query: once that many have been taken it has left the query's loop, and the
\* step that takes the last of them moves on to the next query.
SearchCapped ==
    /\ [](/\ Len(search.taken) <= SEARCH_MAX_RESULTS
          /\ search.pc = "iterating" => Len(search.taken) < SEARCH_MAX_RESULTS)
    /\ [][(Len(search.taken') = SEARCH_MAX_RESULTS /\ search.taken' # search.taken) =>
            /\ search'.pc \in {"year_head", "location_end"}
            /\ search'.pc = "year_head" => search'.year = search.year + 1]_vars

SearchCappedWitness ==
    /\ Len(search.taken) = SEARCH_MAX_RESULTS
    /\ search.users # <<>>
    /\ search.pc = "location_end"
    /\ CountByStatus("INITIAL") < TARGET_USERNAMES

\* ------------------------------------------ ProfileScraper._extract_social_links
\* The profile's bio and blog are texts of words separated by blanks; no pattern of
\* the function matches across a blank.  The words below are the vocabulary, and
\* the three tables say, for each word, what the function's regular expressions do
\* on it.

Platforms ==
    {"twitter", "linkedin", "facebook", "instagram", "telegram", "youtube", "medium",
     "dev_to", "hashnode", "stackoverflow"}

Words ==
    {"linkedin.com/in/johndoe", "t.me/johndoe", "https://myblog.com",
     "https://about.me/john", "https://x.com/jane", "https://twitter.com/bob",
     "LinkedIn:", "https://mywebsite.dev"}

\* Python's None for a link, and a profile field that is None or empty
None == <<>>

NoHandle == ""

\* re.search(patterns[platform], word, re.IGNORECASE).group(1), for the words that
\* the pattern matches: <<platform, word, group>>
PatternMatches ==
    {<<"linkedin", "linkedin.com/in/johndoe", "johndoe">>,
     <<"telegram", "t.me/johndoe", "johndoe">>,
     <<"telegram", "https://about.me/john", "john">>,
     <<"twitter", "https://x.com/jane", "jane">>,
     <<"twitter", "https://twitter.com/bob", "bob">>}

Group(platform, word) ==
    IF \E m \in PatternMatches : m[1] = platform /\ m[2] = word
    THEN (CHOOSE m \in PatternMatches : m[1] = platform /\ m[2] = word)[3]
    ELSE NoHandle

\* the words that url_pattern (https?://...) matches, each as a whole
UrlWords ==
    {"https://myblog.com", "https://about.me/john", "https://x.com/jane",
     "https://twitter.com/bob", "https://mywebsite.dev"}

\* any(domain in url.lower() for domain in known_domains): a substring test on the
\* whole URL ('t.me' is in 'https://about.me/john')
ContainsKnownDomain(url) ==
    url \in {"https://about.me/john", "https://x.com/jane", "https://twitter.com/bob"}

\* the f-strings of lines 80-99 as <<prefix, group, suffix>>
Canonical(platform, group) ==
    CASE platform = "twitter" -> <<"https://twitter.com/", group, "">>
      [] platform = "linkedin" -> <<"https://linkedin.com/in/", group, "">>
      [] platform = "facebook" -> <<"https://facebook.com/", group, "">>
      [] platform = "instagram" -> <<"https://instagram.com/", group, "">>
      [] platform = "telegram" -> <<"https://t.me/", group, "">>
      [] platform = "youtube" -> <<"https://youtube.com/@", group, "">>
      [] platform = "medium" -> <<"https://medium.com/@", group, "">>
      [] platform = "dev_to" -> <<"https://dev.to/", group, "">>
      [] platform = "hashnode" -> <<"https://", group, ".hashnode.dev">>
      [] platform = "stackoverflow" -> <<"https://stackoverflow.com/users/", group, "">>

\* a search that returns the last match in the text
RECURSIVE re_search_last(_, _)
re_search_last(platform, text) ==
    IF text = <<>> THEN NoHandle
    ELSE IF Group(platform, text[Len(text)]) # NoHandle THEN Group(platform, text[Len(text)])
    ELSE re_search_last(platform, SubSeq(text, 1, Len(text) - 1))

\* re.search(pattern, combined_text, re.IGNORECASE): group 1 of the leftmost match
RECURSIVE re_search(_, _)
re_search(platform, text) ==
    IF text = <<>> THEN NoHandle
    ELSE IF Group(platform, Head(text)) # NoHandle THEN Group(platform, Head(text))
    ELSE re_search(platform, Tail(text))

\* lines 103-112: the URLs of the text without a known domain in them, without repeats
RECURSIVE other_links_from(_, _)
other_links_from(text, acc) ==
    IF text = <<>> THEN acc
    ELSE LET url == Head(text)
         IN IF url \in UrlWords /\ ~ContainsKnownDomain(url) /\ url \notin SeqToSet(acc)
            THEN other_links_from(Tail(text), Append(acc, url))
            ELSE other_links_from(Tail(text), acc)

_extract_social_links(bio, blog, twitter_username) ==
    LET combined_text == bio \o blog
        link(platform) ==
            IF platform = "twitter" /\ twitter_username # NoHandle
            THEN Canonical("twitter", twitter_username)
            ELSE LET group == re_search(platform, combined_text)
                 IN IF group # NoHandle THEN Canonical(platform, group) ELSE None
    IN [links |-> [platform \in Platforms |-> link(platform)],
        other_links |-> other_links_from(combined_text, <<>>)]

Bios == UNION {[1..n -> Words] : n \in 0..MaxBioLen}

Blogs == {<<>>} \cup {<<w>> : w \in Words}

Handles == {NoHandle, "alice"}

\* the function is pure: one call from the initial state for every argument
OpExtractSocialLinks(bio, blog, twitter_username) ==
    /\ call = NoCall
    /\ call' = [op |-> "_extract_social_links", arg |-> <<bio, blog, twitter_username>>,
                raised |-> FALSE, ret |-> _extract_social_links(bio, blog, twitter_username),
                connects |-> 0]
    /\ UNCHANGED <<tables, workerVars, conn, utilVars>>

NextLinks ==
    \E bio \in Bios : \E blog \in Blogs : \E twitter_username \in Handles :
        OpExtractSocialLinks(bio, blog, twitter_username)

SpecLinks == Init /\ [][NextLinks]_vars

\* ------------------------------------------------------------------ C25
\* positions of the text at which the platform's pattern matches
MatchesAt(platform, text) == {k \in DOMAIN text : Group(platform, text[k]) # NoHandle}

FirstAt(platform, text) ==
    CHOOSE k \in MatchesAt(platform, text) : \A j \in MatchesAt(platform, text) : k <= j

\* C25: for each platform the link is the canonical URL of the first match of the
\* platform's pattern in bio and blog, and null without a match; a non-empty
\* twitter_username fixes the twitter link whatever the text says.  The bio
\* "linkedin.com/in/johndoe t.me/johndoe" with no blog and no handle gives the
\* linkedin and telegram links of johndoe, null for the others, no other_links.
LinkClassification ==
    call.op = "_extract_social_links" =>
        LET bio == call.arg[1]
            blog == call.arg[2]
            handle == call.arg[3]
            text == bio \o blog
            links == call.ret.links
        IN /\ DOMAIN links = Platforms
           /\ handle # NoHandle => links["twitter"] = <<"https://twitter.com/", handle, "">>
           /\ \A platform \in Platforms :
                 (platform # "twitter" \/ handle = NoHandle) =>
                    IF MatchesAt(platform, text) = {}
                    THEN links[platform] = None
                    ELSE links[platform]
                            = Canonical(platform, Group(platform, text[FirstAt(platform, text)]))
           /\ (bio = <<"linkedin.com/in/johndoe", "t.me/johndoe">> /\ blog = <<>>
                  /\ handle = NoHandle) =>
                 /\ links["linkedin"] = <<"https://linkedin.com/in/", "johndoe", "">>
                 /\ links["telegram"] = <<"https://t.me/", "johndoe", "">>
                 /\ \A platform \in Platforms \ {"linkedin", "telegram"} :
                       links[platform] = None
                 /\ call.ret.other_links = <<>>

LinkClassificationWitness ==
    /\ call.op = "_extract_social_links"
    /\ call.arg = <<(<<"https://x.com/jane", "https://twitter.com/bob">>), <<>>, NoHandle>>
    /\ call.ret.links["twitter"] = <<"https://twitter.com/", "jane", "">>

\* ------------------------------------------------------------------ C26
\* the domain of a URL of the vocabulary
DomainOf(url) ==
    CASE url = "https://myblog.com" -> "myblog.com"
      [] url = "https://about.me/john" -> "about.me"
      [] url = "https://x.com/jane" -> "x.com"
      [] url = "https://twitter.com/bob" -> "twitter.com"
      [] url = "https://mywebsite.dev" -> "mywebsite.dev"

known_domains ==
    {"twitter.com", "x.com", "linkedin.com", "facebook.com", "instagram.com", "t.me",
     "telegram.me", "youtube.com", "medium.com", "dev.to", "hashnode.dev",
     "stackoverflow.com"}

\* C26: other_links holds every URL of bio and blog whose domain is not a known
\* platform domain, each once, in the order of first occurrence, and no URL of a
\* known platform domain.
OtherLinksCollected ==
    call.op = "_extract_social_links" =>
        LET text == call.arg[1] \o call.arg[2]
            other == call.ret.other_links
            wanted == {w \in SeqToSet(text) \cap UrlWords : DomainOf(w) \notin known_domains}
            first(w) == CHOOSE k \in DOMAIN text : text[k] = w /\ \A j \in 1..(k - 1) : text[j] # w
        IN /\ SeqToSet(other) = wanted
           /\ \A i, j \in DOMAIN other : i < j => other[i] # other[j]
           /\ \A i, j \in DOMAIN other : i < j => first(other[i]) < first(other[j])

\* ------------------------------------------------------ ProfileScraper.__init__
Hosts == 1..NumHosts

Pids == 1..NumPids

\* f"{hostname}-{pid}": the pair, since a pid has no '-' in it
instance_id(hostname, pid) == <<hostname, pid>>

\* ProfileScraper() in the process pid of host hostname; a process can construct
\* more than one (tests/test_integration.py:119-120)
NewProfileScraper(hostname, pid) ==
    /\ Len(scrapers) < MaxScrapers
    /\ scrapers' = Append(scrapers, [process |-> <<hostname, pid>>,
                                     instance_id |-> instance_id(hostname, pid)])
    /\ UNCHANGED <<tables, workerVars, opVars, rotatorVars, metrics, search, claimed_from>>

NextUtil ==
    \/ \E outcomes \in ConnectInputs : OpConnect(outcomes)
    \/ \E hostname \in Hosts : \E pid \in Pids : NewProfileScraper(hostname, pid)

SpecUtil == Init /\ [][NextUtil]_vars

NextRotator ==
    \/ \E pool \in TokenPools : ClientManagerInit(pool)
    \/ OpRotateToken
    \/ OpHandleRateLimit
    \/ \E window \in Windows \cup {0} : OpApiCall(window)
    \/ TimePasses

SpecRotator == Init /\ [][NextRotator]_vars

\* ------------------------------------------------------------------ C28
\* C28: any two ProfileScraper objects have different instance ids.
InstanceIdsDistinct ==
    \A i, j \in DOMAIN scrapers : i # j => scrapers[i].instance_id # scrapers[j].instance_id

\* ------------------------------------------------------------ the entry points
Scripts == {"scripts/run_profile_scraper.py", "src/scrapers/profile_scraper.py"}

\* the exit status of the process, from the __main__ block around scraper.run():
\* KeyboardInterrupt is caught and logged and the script ends; any other exception
\* ends in sys.exit(1) or is raised again out of the script
main(script, outcome) ==
    CASE outcome = "completed" -> 0
      [] outcome = "KeyboardInterrupt" -> 0
      [] outcome = "Exception" -> 1

\* the operator interrupts the run: KeyboardInterrupt passes the handlers for
\* Exception in get_cursor, scrape_profiles and run; run's finally disconnects,
\* which ends the open transaction without a commit
Interrupt(w, script) ==
    /\ pc[w] # "idle"
    /\ tx' = [tx EXCEPT ![w] = NoTx]
    /\ Exit(w)
    /\ call' = [op |-> "__main__", arg |-> <<script, "KeyboardInterrupt", w>>,
                raised |-> FALSE, ret |-> main(script, "KeyboardInterrupt"), connects |-> 0]
    /\ UNCHANGED <<developers, childTables, conn, utilVars>>

NextInterrupt ==
    \/ \E usernames \in InsertInputs : InsertUsernamesBatch(usernames)
    \/ Tick
    \/ WorkerStepAlive(1)
    \/ \E script \in Scripts : Interrupt(1, script)

SpecInterrupt == Init /\ [][NextInterrupt]_vars

\* ------------------------------------------------------------------ C29
\* C29: a run interrupted by the operator ends with a non-zero exit status and
\* leaves every item the instance holds as it is, PROCESSING with its claim fields.
InterruptExit ==
    [][(call'.op = "__main__" /\ call' # call) =>
          /\ call'.ret # 0
          /\ \A u \in DOMAIN developers :
                developers[u].claimed_by = call'.arg[3] => developers'[u] = developers[u]]_vars

\* ------------------------------------------------------------------ C30
\* the table as step 1 of claim_batch_for_processing(INITIAL, ...) leaves it
RowsAfterRelease == Merge(developers, [u \in StaleRows(developers) |->
                                          ReleaseRow(developers[u], "INITIAL")])

CandidatesAfterRelease ==
    {u \in DOMAIN developers : RowsAfterRelease[u].enrichment_status = "INITIAL"}

\* what the claim of instance w that this step makes returns and writes: some
\* limit of the configuration explains the number of usernames returned, they are
\* the candidates with the smallest ids, each is PROCESSING and claimed by w, and
\* nothing else is written but the stale release
ClaimReturnsExactly(w) ==
    LET rows == RowsAfterRelease
        cand == CandidatesAfterRelease
        ids == SeqToSet(tx'[w].claimed)
    IN /\ Len(tx'[w].claimed) = Cardinality(ids)
       /\ ids \subseteq cand
       /\ \E limit \in BatchSizes : Cardinality(ids) = Min(limit, Cardinality(cand))
       /\ \A u \in ids : \A v \in cand \ ids : rows[u].id < rows[v].id
       /\ \A u \in ids : /\ tx'[w].rows[u].enrichment_status = "PROCESSING"
                         /\ tx'[w].rows[u].claimed_by = w
       /\ DOMAIN tx'[w].rows = ids \cup StaleRows(developers)
       /\ \A u \in DOMAIN tx'[w].rows \ ids : tx'[w].rows[u] = rows[u]

\* C30: a claim made while no other claim is in flight returns exactly
\* min(limit, number of rows INITIAL after the stale release) usernames, those with
\* the smallest ids, PROCESSING and claimed by the caller; other rows keep the
\* status the stale release gave them.
ClaimBatchResultNoClaimInFlight ==
    [][\A w \in Workers :
          (ClaimBatch(w) /\ \A v \in Workers \ {w} : ~InClaimTx(v)) =>
              ClaimReturnsExactly(w)]_vars

\* ------------------------------------------------------------------ C31
\* C31: a fetch_profile whose every attempt fails transiently calls the API exactly
\* MAX_RETRIES times and then gives up; after failed attempt k (from 0) with
\* k < MAX_RETRIES - 1 it sleeps RETRY_DELAY * 2^k (RETRY_DELAY when exponential
\* backoff is off), and it does not sleep after the last failed attempt.
TransientBackoff ==
    (/\ call.op = "fetch_profile"
     /\ \A i \in DOMAIN call.arg[2] : call.arg[2][i] = "transient") =>
        /\ call.ret.calls = MAX_RETRIES
        /\ call.ret.result = "failed"
        /\ Len(call.ret.sleeps) = MAX_RETRIES - 1
        /\ \A k \in 0..(MAX_RETRIES - 2) :
              call.ret.sleeps[k + 1] =
                 (IF EXPONENTIAL_BACKOFF THEN RETRY_DELAY * (2 ^ k) ELSE RETRY_DELAY)

TransientBackoffWitness ==
    /\ call.op = "fetch_profile"
    /\ call.arg[2] = <<"transient", "transient", "transient">>
    /\ call.ret.sleeps = <<RETRY_DELAY, 2 * RETRY_DELAY>>
    /\ call.arg[1] \in DOMAIN developers
    /\ developers[call.arg[1]].enrichment_status = "FAILED"

\* ------------------------------------------------------------------ C32
\* the steps in which instance w writes the outcome of an item: update_profile
\* commits, fetch_profile marks the item failed, the handler of scrape_profiles
\* hands it back with increment_retry_count
RecordsOutcome(w) == UpdateProfileCommit(w) \/ FetchProfileFailed(w) \/ IncrementRetryCount(w)

\* C32: an item that is PROCESSING under the claim of another instance is not
\* changed when instance w records an outcome (w's own claim on it was released as
\* stale and the item claimed again).
OnlyHolderRecords ==
    [][\A w \in Workers : \A u \in DOMAIN developers :
          (/\ developers[u].enrichment_status = "PROCESSING"
           /\ developers[u].claimed_by \in Workers \ {w}
           /\ RecordsOutcome(w)) => developers'[u] = developers[u]]_vars

\* ------------------------------------------------------------------ C33
\* the step after which scrape_profiles returns normally: the target check of
\* line 195 finds the target reached, or the claim of line 201 comes back empty
\* (line 208)
LoopEnds(w) ==
    /\ pc[w] = "loop"
    /\ \/ TargetReached(w)
       \/ ClaimBatch(w) /\ tx'[w].claimed = <<>>

\* C33: when the claim-and-process loop of instance w ends normally, no item of the
\* batch it has just worked through is still PROCESSING under w's claim.
LoopLeavesNoClaim ==
    [][\A w \in Workers :
          LoopEnds(w) =>
             \A k \in DOMAIN claimed_usernames[w] :
                ~(/\ developers[claimed_usernames[w][k]].enrichment_status = "PROCESSING"
                  /\ developers[claimed_usernames[w][k]].claimed_by = w)]_vars

\* ------------------------------------------------------------------ C34
\* C34: once update_profile has committed an item, what remains of the handling of
\* that item (the progress query, logging, the sleep, and the handler they reach
\* when they raise) leaves the item PROFILED with retry_count 0.
CommittedStaysProfiled ==
    [][\A w \in Workers :
          (pc[w] = "handler_after_commit" /\ pc'[w] # "handler_after_commit") =>
             /\ developers'[Cur(w)].enrichment_status = "PROFILED"
             /\ developers'[Cur(w)].retry_count = 0]_vars

\* ------------------------------------------------------------------ C35
\* one instance that keeps running: whenever scrape_profiles can take a step, it
\* eventually takes one
LiveSpecLoop == SpecSingleAlive /\ WF_vars(WorkerStepAlive(1))

\* C35: an invocation of the claim-and-process loop ends: once instance 1 is inside
\* scrape_profiles it eventually leaves it.
LoopTerminates == (pc[1] # "idle") ~> (pc[1] = "idle")

\* ------------------------------------------- claim_batch_for_processing(from_status)
\* the stages that claim: the fetch stage from INITIAL, the enhancement stage from
\* PROFILED
ClaimStages == {"INITIAL", "PROFILED"}

\* claim_batch_for_processing(from_status, limit, w, timeout_minutes) called
\* directly: step 1 sets every stale row to from_status, step 2 claims
OpClaimBatchFrom(w, from_status, limit) ==
    /\ conn = "open"
    /\ LET stale == StaleRows(developers)
           released == [u \in stale |-> ReleaseRow(developers[u], from_status)]
           rows == Merge(developers, released)
           ids == SelectForUpdateSkipLocked(w, rows, from_status, limit)
           pending == Merge(released, [u \in SeqToSet(ids) |-> ClaimRow(rows[u], w)])
       IN /\ developers' = get_cursor_commit(developers, pending)
          /\ call' = Returned("claim_batch_for_processing", <<w, from_status, limit>>, ids)
          /\ claimed_from' = [u \in Usernames |->
                IF u \in SeqToSet(ids) THEN from_status ELSE claimed_from[u]]
    /\ UNCHANGED <<childTables, conn, workerVars, rotatorVars, metrics, search, scrapers>>

\* the two stages claiming from one table, profiles being committed, time passing
NextStages ==
    \/ \E usernames \in OpInsertInputs : OpInsertUsernamesBatch(usernames)
    \/ \E from_status \in ClaimStages : \E limit \in BatchSizes :
          OpClaimBatchFrom(1, from_status, limit)
    \/ \E u \in Usernames : \E p \in OpProfiles : OpUpdateProfile(u, p)
    \/ Tick

SpecStages == Init /\ [][NextStages]_vars

\* ------------------------------------------------------------------ C36
\* C36: the stale release of a claim gives a stale row the status it was claimed
\* from: after claim_batch_for_processing(from_status, ...) a row that was stale is
\* in the status its last claim took it from, or claimed again by a claim from
\* that same status.
StaleReleaseKeepsStage ==
    [][\A from_status \in ClaimStages : \A limit \in BatchSizes :
          OpClaimBatchFrom(1, from_status, limit) =>
             \A u \in StaleRows(developers) :
                \/ developers'[u].enrichment_status = claimed_from[u]
                \/ /\ developers'[u].enrichment_status = "PROCESSING"
                   /\ claimed_from[u] = from_status]_vars

\* ------------------------------------------------- scrape_profiles, a lower target
\* the target check of scrape_profiles (lines 194-197, 206-209) for a configured
\* TARGET_PROFILES of target, at most the one of the other specifications
TargetReachedAt(w, target) ==
    /\ pc[w] \in {"idle", "loop"}
    /\ CountByStatus("PROFILED") >= target
    /\ Exit(w)
    /\ UNCHANGED <<developers, childTables, tx>>
    /\ UNCHANGED <<opVars, utilVars>>

ClaimBatchAt(w, target) ==
    /\ CountByStatus("PROFILED") < target
    /\ ClaimBatch(w)

\* one instance whose target is below the number of rows a batch can hold
NextLowTarget ==
    \/ \E usernames \in InsertInputs : InsertUsernamesBatch(usernames)
    \/ Tick
    \/ TargetReachedAt(1, LowTarget)
    \/ ClaimBatchAt(1, LowTarget)
    \/ ClaimCommit(1)
    \/ ClaimError(1)
    \/ FetchProfileOk(1)
    \/ FetchProfileNone(1)
    \/ FetchProfileFailed(1)
    \/ UpdateProfileCommit(1)
    \/ UpdateProfileError(1)
    \/ IncrementRetryCount(1)
    \/ IncrementRetryCountError(1)

SpecLowTarget == Init /\ [][NextLowTarget]_vars

\* ------------------------------------------------------------------ C37
\* C37: the fetch stage never takes the number of PROFILED rows above the target.
TargetNotExceeded == CountByStatus("PROFILED") <= LowTarget

\* ------------------------------------------- scrape_profiles, the metrics of an item
\* what update_profile does for the item: returns the id, returns None (no row has
\* the login), or raises
UpdateResults == {"id", "none", "raises"}

\* the body of the for loop of scrape_profiles (lines 227-253) for one username, as
\* far as the counters of m go; api is what the API does at each attempt of
\* fetch_profile, mark_ok whether mark_as_failed returns, update what
\* update_profile does, count_ok whether the progress query returns
scrape_item(m, api, mark_ok, update, count_ok) ==
    LET name == "profile_scraper"
        r == fetch_profile(api)
        m1 == increment(m, name, "processed", 1)                         \* line 229
        m2 == increment(increment(m1, name, "rate_limit", r.rate_limit), \* lines 168-170
                        name, "retries", r.retries)                      \* and 175
        handler == increment(m2, name, "failed", 1)                      \* line 250
    IN CASE r.result = "profile" /\ update = "id" ->
              LET m3 == increment(m2, name, "success", 1)                \* line 235
              IN IF count_ok THEN m3 ELSE increment(m3, name, "failed", 1)
         [] r.result = "profile" /\ update = "none" -> m2                \* line 233
         [] r.result = "profile" /\ update = "raises" -> handler
         [] r.result = "failed" -> IF mark_ok THEN increment(m2, name, "failed", 1)
                                   ELSE handler
         [] OTHER -> increment(m2, name, "failed", 1)                    \* line 244

\* the loop handles one more item
OpScrapeItem(api, mark_ok, update, count_ok) ==
    /\ metrics["profile_scraper"].total_processed < MaxItems
    /\ metrics' = scrape_item(metrics, api, mark_ok, update, count_ok)
    /\ UNCHANGED <<rotatorVars, search, scrapers, claimed_from, tables, workerVars, opVars>>

NextItems ==
    \E api \in ApiInputs : \E mark_ok \in BOOLEAN : \E update \in UpdateResults :
       \E count_ok \in BOOLEAN : OpScrapeItem(api, mark_ok, update, count_ok)

SpecItems == Init /\ [][NextItems]_vars

\* ------------------------------------------------------------------ C38
\* C38: the counters of the fetch stage add up: total_processed = total_success +
\* total_failed.
MetricsAddUp ==
    metrics["profile_scraper"].total_processed =
        metrics["profile_scraper"].total_success + metrics["profile_scraper"].total_failed

\* ------------------------------------------------------------------ C39
\* the identifier the step takes from the API, if it takes one
Yielded ==
    IF Len(search'.taken) = Len(search.taken) + 1
    THEN {search'.taken[Len(search'.taken)]}
    ELSE {}

\* C39: search_users loses no identifier: an identifier the API yields, or one that
\* is in the buffer, is after every step in the buffer or has been given to
\* insert_usernames_batch (which only adds rows); when search_users has returned the
\* buffer is empty; and a query is issued only while fewer than TARGET_USERNAMES
\* rows are INITIAL.
NoIdentifierLost ==
    /\ [](search.pc = "done" => search.batch_usernames = <<>>)
    /\ [][/\ \A u \in SeqToSet(search.batch_usernames) \cup Yielded :
                u \in SeqToSet(search'.batch_usernames) \cup DOMAIN developers'
          /\ DOMAIN developers \subseteq DOMAIN developers'
          /\ (search.pc = "year_head" /\ search'.pc = "iterating") =>
                CountByStatus("INITIAL") < TARGET_USERNAMES]_vars

\* every query ended by an error, one identifier was yielded, and search_users has
\* returned with it saved
NoIdentifierLostWitness ==
    /\ search.pc = "done"
    /\ metrics["username_scraper"].total_failed = NumLocations * NumYears
    /\ metrics["username_scraper"].total_processed = 1
    /\ metrics["username_scraper"].total_success = 1
    /\ Len(search.taken) = 1
    /\ search.taken[1] \in DOMAIN developers

====
